---- MODULE Spec2Model ----
(***************************************************************************)
(* Credit ledger ("neurons"), metered LLM requests and the inbound message *)
(* coordinator of neurobot-prod.                                           *)
(*                                                                         *)
(* The ledger part models internal/currency (Repository and Service) on a  *)
(* PostgreSQL store.  Every statement that reads or writes shared rows is  *)
(* a step of the calling worker, so that calls of different workers        *)
(* interleave; what a transaction writes becomes visible at its COMMIT.    *)
(* Time is counted in minutes.                                             *)
(***************************************************************************)
EXTENDS Integers, Sequences, FiniteSets, TLC

\* ------------------------------------------------------------------ bounds
\* operations started in one behaviour
MaxCalls == 2
\* the largest discount percent a plan is given
MaxDiscountPercent == 100

\* ----------------------------------------------------- program constants
MinutesPerHour == 60
HoursPerDay == 24
DailyRewardHours == 20
FreeDailyNeurons == 5
DefaultExpiryDays == 3
BaseModelCost == 1
PremiumModelCost == 3
ProModelCost == 5
FreeMaxRequestLength == 500
PremiumDailyNeurons == 30
PremiumMaxRequestLength == 2000
PremiumNeuronDiscount == 10
PremiumExpiryDays == 7
ProDailyNeurons == 100
ProMaxRequestLength == 0
ProNeuronDiscount == 20
ProExpiryDays == 30

Hour == MinutesPerHour
Day == HoursPerDay * Hour

\* ------------------------------------------------------------ input sets
Users == {1, 2}
Procs == {"w1", "w2"}
Amounts == {0, 3}
SignedAmounts == {0 - 3, 0, 3}
\* type, reference and lifetime of a grant; type and reference of a spend
GrantInputs == {[txType |-> "purchase", referenceID |-> "", expiryDays |-> 1],
                [txType |-> "daily", referenceID |-> "", expiryDays |-> 0]}
SpendInputs == {[txType |-> "usage", referenceID |-> ""],
                [txType |-> "admin", referenceID |-> "1"]}
LoyaltyPercents == {30}
Models == {"gpt-3.5-turbo", "claude-3-haiku"}
\* the models a request may name: the two above and one the free plan does not offer
RequestModels == Models \cup {"gpt-4"}
TierModels == {"gpt-3.5-turbo", "gpt-4o"}
Prompts == {"hi"}
\* prompts and model names whose bytes can be cut in more than one place
HashTexts == {"a", "ab", "hi"}
HashModels == {"bc", "c", "gpt-3.5-turbo"}
\* a prompt of 501 characters, one more than the free plan takes
A10 == "aaaaaaaaaa"
A100 == A10 \o A10 \o A10 \o A10 \o A10 \o A10 \o A10 \o A10 \o A10 \o A10
LongPrompt == A100 \o A100 \o A100 \o A100 \o A100 \o "a"
RequestPrompts == Prompts \cup {LongPrompt}
\* neuronsCost handed to RecordLLMUsage
Costs == {0, BaseModelCost}
\* the plans asked for ('gold' is not in the plan table) and the periods
PlanCodes == {"premium", "pro", "gold"}
Periods == {"monthly", "yearly"}
\* the base costs of the cost table and the discounts of a plan
BaseCosts == {BaseModelCost, PremiumModelCost, ProModelCost}
DiscountPercents == 0..MaxDiscountPercent
\* inbound actions delivered to the message worker
Actions == {1, 2}
\* the instants the clock is observed at
Clock == {0, Day + 1}

\* ----------------------------------------------------------- null values
Null == 0 - 1
NoRow == [balance |-> Null]
NoProc == "none"

\* transaction types (TransactionType)
TypeDaily == "daily"
TypePurchase == "purchase"
TypeUsage == "usage"
TypeAdmin == "admin"

\* error values returned by the operations
ErrNone == "ok"
ErrInsufficient == "insufficient_balance"
ErrStore == "store_error"
ErrSerialization == "serialization_failure"
ErrUnique == "unique_violation"
ErrDeadlock == "deadlock_detected"
ErrAmount == "amount_not_positive"
ErrAlreadyGranted == "daily_already_received"
ErrNotEnough == "not_enough_for_request"
ErrProvider == "provider_error"
ErrNoAccess == "no_access_to_model"
ErrTooLong == "request_too_long"
ErrPlanNotFound == "plan_not_found"
ErrNotFound == "subscription_not_found_or_cancelled"

VARIABLES
    now,            \* wall clock, minutes
    balances,       \* user_neuron_balance: user -> committed row or NoRow
    transactions,   \* neuron_transactions: committed rows in commit order
    txSeq,          \* last value drawn from the neuron_transactions id sequence
    usages,         \* llm_usage: rows in insertion order
    rowLock,        \* user -> worker holding the row (or unique key) lock
    subscriptions,  \* user_subscriptions: committed rows, the id is the position
    pc,             \* worker -> position
    call,           \* worker -> operation and arguments
    loc,            \* worker -> local variables of the operation
    res,            \* worker -> error value of the operation
    started,        \* number of operations started so far
    sweeps,         \* history: sweeps committed in a row, the balances after the first
    served,         \* the requests ProcessRequest has answered, in order of return
    coord           \* inbound action -> state of its handleMessage call

vars == <<now, balances, transactions, txSeq, usages, rowLock, subscriptions, pc, call,
          loc, res, started, sweeps, served, coord>>

\* what the ledger operations leave alone
ledgerFrame == <<served, coord, subscriptions>>

\* ------------------------------------------------------------- helpers
Min(a, b) == IF a < b THEN a ELSE b

NoCall == [op |-> "none", user |-> 0, amount |-> 0, txType |-> "", referenceID |-> "",
           expiryDays |-> 0, percent |-> 0, model |-> "", text |-> "",
           plan |-> "", period |-> "", subID |-> 0]

NoPlan == [code |-> ""]

NoTx == [user_id |-> 0, amount |-> 0, transaction_type |-> "", expires_at |-> Null,
         reference_id |-> ""]

NoLoc == [tx |-> NoTx, selected |-> <<>>, snapshot |-> NoRow, currentBalance |-> 0, lifetimeEarned |-> 0,
          lifetimeSpent |-> 0, created |-> FALSE, ret |-> "", checkedAt |-> Null,
          entries |-> <<>>, pending |-> <<>>,
          hash |-> "", cost |-> 0, txID |-> Null, invoked |-> FALSE, recordErr |-> "ok",
          cached |-> FALSE, after |-> 0, attempts |-> 0,
          sub |-> [plan |-> ""], visible |-> {}, staged |-> {}, plan |-> NoPlan]

NoUsage == [id |-> Null]

\* handleMessage before the action is delivered
NoCoord == [update |-> "none", main |-> "idle", reg |-> "none", msg |-> "none",
            userRegisteredChan |-> "open", userRegistrationFailed |-> <<>>,
            messageChan |-> "open", outbox |-> <<>>, err |-> FALSE,
            failedFirst |-> FALSE, case |-> 0]

\* n sweeps have committed in a row, with nothing else committed and the clock not
\* read anew since the first of them selected; `after` is what the first left;
\* `running` are the sweeps under way that nothing has disturbed, `second` those of
\* them that selected after the first had committed
NoSweeps == [n |-> 0, after |-> [u \in Users |-> NoRow], running |-> {}, second |-> {}]

\* balance column as a reader of the committed table sees it (no row: nothing owned)
BalanceOf(u) == IF balances[u] = NoRow THEN 0 ELSE balances[u].balance

RECURSIVE SumAmounts(_, _)
SumAmounts(log, u) ==
    IF log = <<>> THEN 0
    ELSE (IF Head(log).user_id = u THEN Head(log).amount ELSE 0) + SumAmounts(Tail(log), u)

\* the committed transactions of one user, in commit order
RECURSIVE UserLog(_, _)
UserLog(log, u) ==
    IF log = <<>> THEN <<>>
    ELSE IF Head(log).user_id = u THEN <<Head(log)>> \o UserLog(Tail(log), u)
    ELSE UserLog(Tail(log), u)

\* ------------------------------------------------- stores the workers find
EmptyStore ==
    [balances |-> [u \in Users |-> NoRow], transactions |-> <<>>, txSeq |-> 0,
     usages |-> <<>>]

\* at time 0 user 1 was granted 1 neuron with a lifetime of one day and 2 neurons
\* that never expire; user 2 was granted 2 neurons with a lifetime of one day
GrantedStore ==
    [balances |-> [u \in Users |->
                     [balance |-> IF u = 1 THEN 3 ELSE 2,
                      lifetime_earned |-> IF u = 1 THEN 3 ELSE 2,
                      lifetime_spent |-> 0, last_daily_reward_at |-> Null]],
     transactions |-> <<[id |-> 1, user_id |-> 1, amount |-> 1, balance_after |-> 1,
                         transaction_type |-> TypePurchase, expires_at |-> Day,
                         reference_id |-> ""],
                        [id |-> 2, user_id |-> 1, amount |-> 2, balance_after |-> 3,
                         transaction_type |-> TypePurchase, expires_at |-> Null,
                         reference_id |-> ""],
                        [id |-> 3, user_id |-> 2, amount |-> 2, balance_after |-> 2,
                         transaction_type |-> TypePurchase, expires_at |-> Day,
                         reference_id |-> ""]>>,
     txSeq |-> 3, usages |-> <<>>]

InitialStores == {EmptyStore, GrantedStore}

InitWith(stores) ==
    /\ now = 0
    /\ \E s \in stores :
        /\ subscriptions = IF "subscriptions" \in DOMAIN s THEN s.subscriptions ELSE <<>>
        /\ balances = s.balances
        /\ transactions = s.transactions
        /\ txSeq = s.txSeq
        /\ usages = s.usages
    /\ rowLock = [u \in Users |-> NoProc]
    /\ pc = [p \in Procs |-> "idle"]
    /\ call = [p \in Procs |-> NoCall]
    /\ loc = [p \in Procs |-> NoLoc]
    /\ res = [p \in Procs |-> ErrNone]
    /\ started = 0
    /\ sweeps = NoSweeps
    /\ served = <<>>
    /\ coord = [m \in Actions |-> NoCoord]

Init == InitWith(InitialStores)

\* --------------------------------------------------------------- clock
TickIn(clock) ==
    /\ \E t \in clock : t > now /\ now' = t
    /\ sweeps' = NoSweeps
    /\ UNCHANGED ledgerFrame
    /\ UNCHANGED <<balances, transactions, txSeq, usages, rowLock, pc, call, loc, res, started>>

Tick == TickIn(Clock)

\* an operation starts: the worker is free and the behaviour's budget is not used up
Begin(p, c, position, locals, err) ==
    /\ pc[p] = "idle"
    /\ started < MaxCalls
    /\ started' = started + 1
    /\ call' = [call EXCEPT ![p] = c]
    /\ pc' = [pc EXCEPT ![p] = position]
    /\ loc' = [loc EXCEPT ![p] = locals]
    /\ res' = [res EXCEPT ![p] = err]
    /\ UNCHANGED ledgerFrame
    /\ UNCHANGED <<now, balances, transactions, txSeq, usages, rowLock, sweeps>>

\* ------------------------------------------- Service.AddNeurons (grant)
\* variant: only a zero amount is refused
NotPositiveZeroOnly(amount) == amount = 0

\* if amount <= 0 { return nil, errors.New(...) }
NotPositive(amount) == amount <= 0

AddNeuronsOf(p, amounts) ==
    \E u \in Users, a \in amounts, in \in GrantInputs :
        LET c == [NoCall EXCEPT !.op = "AddNeurons", !.user = u, !.amount = a,
                                !.txType = in.txType, !.referenceID = in.referenceID,
                                !.expiryDays = in.expiryDays]
            tx == [user_id |-> u, amount |-> a, transaction_type |-> in.txType,
                   expires_at |-> IF in.expiryDays > 0 THEN now + in.expiryDays * Day
                                  ELSE Null,
                   reference_id |-> in.referenceID]
        IN IF NotPositive(a)
           THEN Begin(p, c, "done", NoLoc, ErrAmount)
           ELSE Begin(p, c, "tx_select", [NoLoc EXCEPT !.tx = tx], ErrNone)

AddNeurons(p) == AddNeuronsOf(p, Amounts)

\* the grant with amounts of either sign
AddNeuronsSigned(p) == AddNeuronsOf(p, SignedAmounts)

\* ------------------------------------------ Service.SpendNeurons (spend)
SpendNeuronsOf(p, amounts) ==
    \E u \in Users, a \in amounts, in \in SpendInputs :
        LET c == [NoCall EXCEPT !.op = "SpendNeurons", !.user = u, !.amount = a,
                                !.txType = in.txType, !.referenceID = in.referenceID]
            tx == [user_id |-> u, amount |-> 0 - a, transaction_type |-> in.txType,
                   expires_at |-> Null, reference_id |-> in.referenceID]
        IN IF NotPositive(a)
           THEN Begin(p, c, "done", NoLoc, ErrAmount)
           ELSE Begin(p, c, "tx_select", [NoLoc EXCEPT !.tx = tx], ErrNone)

SpendNeurons(p) == SpendNeuronsOf(p, Amounts)

\* the spend with amounts of either sign
SpendNeuronsSigned(p) == SpendNeuronsOf(p, SignedAmounts)

\* ------------------------------------------- Repository.AddTransaction
\* where RecordLLMUsage returns to: ProcessRequest, or the caller of the service
Finish(p) == IF call[p].op = "ProcessRequest" THEN "pr_finish" ELSE "done"

\* where the caller continues once AddTransaction has returned err
AfterTx(p, err) ==
    IF call[p].op \in {"RecordLLMUsage", "ProcessRequest"}
    THEN (IF err = ErrNone THEN "rl_add_usage" ELSE Finish(p))
    ELSE "done"

\* variant: the SELECT takes no lock
AcquireNoLock(p, u) == rowLock

\* SELECT ... FOR UPDATE takes the row lock
AcquireRowLock(p, u) == [rowLock EXCEPT ![u] = p]

\* the locals AddTransaction scans from the locked row
ScanRow(p, u) ==
    [loc EXCEPT ![p].currentBalance = balances[u].balance,
                ![p].lifetimeEarned = balances[u].lifetime_earned,
                ![p].lifetimeSpent = balances[u].lifetime_spent]

\* SELECT ... FOR UPDATE under REPEATABLE READ
TxSelect(p) ==
    /\ pc[p] = "tx_select"
    /\ LET u == loc[p].tx.user_id IN
        IF balances[u] = NoRow
        THEN \* sql.ErrNoRows: the row is created inside the transaction
             /\ pc' = [pc EXCEPT ![p] = "tx_insert_row"]
             /\ UNCHANGED <<rowLock, loc>>
        ELSE IF rowLock[u] = NoProc
        THEN /\ rowLock' = AcquireRowLock(p, u)
             /\ loc' = ScanRow(p, u)
             /\ pc' = [pc EXCEPT ![p] = "tx_locked"]
        ELSE \* the row is locked: wait, the snapshot is already taken
             /\ pc' = [pc EXCEPT ![p] = "tx_lockwait"]
             /\ UNCHANGED <<rowLock, loc>>
    /\ UNCHANGED ledgerFrame
    /\ UNCHANGED <<now, balances, transactions, txSeq, usages, call, res, started, sweeps>>

\* the lock holder rolled back: the waiter gets the row its snapshot shows
TxLockGranted(p) ==
    /\ pc[p] = "tx_lockwait"
    /\ LET u == loc[p].tx.user_id IN
        /\ rowLock[u] = NoProc
        /\ rowLock' = AcquireRowLock(p, u)
        /\ loc' = ScanRow(p, u)
        /\ pc' = [pc EXCEPT ![p] = "tx_locked"]
    /\ UNCHANGED ledgerFrame
    /\ UNCHANGED <<now, balances, transactions, txSeq, usages, call, res, started, sweeps>>

\* the lock holder committed an update of the row: could not serialize access
TxSerializationFailure(p) ==
    /\ pc[p] = "tx_serfail"
    /\ res' = [res EXCEPT ![p] = ErrSerialization]
    /\ pc' = [pc EXCEPT ![p] = AfterTx(p, ErrSerialization)]
    /\ UNCHANGED ledgerFrame
    /\ UNCHANGED <<now, balances, transactions, txSeq, usages, rowLock, call, loc, started, sweeps>>

\* INSERT INTO user_neuron_balance inside the transaction (user_id is unique)
TxInsertRow(p) ==
    /\ pc[p] = "tx_insert_row"
    /\ LET u == loc[p].tx.user_id IN
        IF balances[u] # NoRow
        THEN \* another transaction committed the row meanwhile
             /\ res' = [res EXCEPT ![p] = ErrUnique]
             /\ pc' = [pc EXCEPT ![p] = AfterTx(p, ErrUnique)]
             /\ UNCHANGED <<rowLock, loc>>
        ELSE /\ rowLock[u] = NoProc     \* blocks on an uncommitted insert of the key
             /\ rowLock' = AcquireRowLock(p, u)
             /\ loc' = [loc EXCEPT ![p].currentBalance = 0, ![p].lifetimeEarned = 0,
                                   ![p].lifetimeSpent = 0, ![p].created = TRUE]
             /\ pc' = [pc EXCEPT ![p] = "tx_locked"]
             /\ UNCHANGED res
    /\ UNCHANGED ledgerFrame
    /\ UNCHANGED <<now, balances, transactions, txSeq, usages, call, started, sweeps>>

\* workers waiting for the row lock of u under REPEATABLE READ
Waiters(u) == {q \in Procs : pc[q] = "tx_lockwait" /\ loc[q].tx.user_id = u}

\* positions after a commit that updated the rows of `users`
AfterCommit(p, position, users) ==
    [q \in Procs |->
        IF q = p THEN position
        ELSE IF \E u \in users : q \in Waiters(u) THEN "tx_serfail"
        ELSE pc[q]]

\* variant: no transaction is refused
InsufficientBalanceNever(newBalance) == FALSE

\* newBalance < 0: the transaction is refused
InsufficientBalance(newBalance) == newBalance < 0

\* variant: the signed amount is added to lifetime_spent
UpdatedRowSignedSpent(p, newBalance) ==
    LET u == loc[p].tx.user_id
        amount == loc[p].tx.amount
        earned == IF amount > 0 THEN loc[p].lifetimeEarned + amount ELSE loc[p].lifetimeEarned
        spent == IF amount > 0 THEN loc[p].lifetimeSpent ELSE loc[p].lifetimeSpent + amount
        last == IF loc[p].tx.transaction_type = TypeDaily THEN now
                ELSE IF balances[u] = NoRow THEN Null
                ELSE balances[u].last_daily_reward_at
    IN [balance |-> newBalance, lifetime_earned |-> earned, lifetime_spent |-> spent,
        last_daily_reward_at |-> last]

\* the row written by the UPDATE of AddTransaction
UpdatedRow(p, newBalance) ==
    LET u == loc[p].tx.user_id
        amount == loc[p].tx.amount
        earned == IF amount > 0 THEN loc[p].lifetimeEarned + amount ELSE loc[p].lifetimeEarned
        spent == IF amount > 0 THEN loc[p].lifetimeSpent ELSE loc[p].lifetimeSpent + (0 - amount)
        last == IF loc[p].tx.transaction_type = TypeDaily THEN now
                ELSE IF balances[u] = NoRow THEN Null
                ELSE balances[u].last_daily_reward_at
    IN [balance |-> newBalance, lifetime_earned |-> earned, lifetime_spent |-> spent,
        last_daily_reward_at |-> last]

\* tx.BalanceAfter
BalanceAfter(currentBalance, newBalance) == newBalance

\* the row inserted into neuron_transactions by AddTransaction
InsertedTx(p, newBalance) ==
    [id |-> txSeq + 1, user_id |-> loc[p].tx.user_id, amount |-> loc[p].tx.amount,
     balance_after |-> BalanceAfter(loc[p].currentBalance, newBalance),
     transaction_type |-> loc[p].tx.transaction_type,
     expires_at |-> loc[p].tx.expires_at, reference_id |-> loc[p].tx.reference_id]

\* variant: the UPDATE survives a failure of the INSERT or of the COMMIT
BalancesWithoutRollback(p, failAt, newBalance) ==
    IF failAt \in {"insert", "commit"}
    THEN [balances EXCEPT ![loc[p].tx.user_id] = UpdatedRow(p, newBalance)]
    ELSE balances

\* the balance table once a statement after the row lock has failed at failAt
\* and the deferred Rollback has run
BalancesAfterRollback(p, failAt, newBalance) == balances

\* variant: the row stays locked after the transaction has ended
KeepRowLock(p, u) == rowLock

\* COMMIT, or the deferred Rollback, ends the transaction and releases the row
ReleaseRowLock(p, u) == [rowLock EXCEPT ![u] = NoProc]

\* balance check, UPDATE, INSERT and COMMIT, or the deferred Rollback
TxApply(p) ==
    /\ pc[p] = "tx_locked"
    /\ LET u == loc[p].tx.user_id
           newBalance == loc[p].currentBalance + loc[p].tx.amount
       IN
        IF InsufficientBalance(newBalance)
        THEN /\ res' = [res EXCEPT ![p] = ErrInsufficient]
             /\ pc' = [pc EXCEPT ![p] = AfterTx(p, ErrInsufficient)]
             /\ rowLock' = ReleaseRowLock(p, u)
             /\ UNCHANGED <<balances, transactions, txSeq, loc, sweeps>>
        ELSE \E failAt \in {"none", "update", "insert", "commit"} :
             IF failAt = "none"
             THEN /\ balances' = [balances EXCEPT ![u] = UpdatedRow(p, newBalance)]
                  /\ transactions' = Append(transactions, InsertedTx(p, newBalance))
                  /\ txSeq' = txSeq + 1
                  /\ rowLock' = ReleaseRowLock(p, u)
                  /\ res' = [res EXCEPT ![p] = ErrNone]
                  /\ loc' = [loc EXCEPT ![p].txID = txSeq + 1]
                  /\ pc' = AfterCommit(p, AfterTx(p, ErrNone), {u})
                  /\ sweeps' = NoSweeps
             ELSE /\ res' = [res EXCEPT ![p] = ErrStore]
                  /\ pc' = [pc EXCEPT ![p] = AfterTx(p, ErrStore)]
                  /\ rowLock' = ReleaseRowLock(p, u)
                  /\ balances' = BalancesAfterRollback(p, failAt, newBalance)
                  /\ txSeq' = IF failAt = "commit" THEN txSeq + 1 ELSE txSeq
                  /\ UNCHANGED <<transactions, loc, sweeps>>
    /\ UNCHANGED ledgerFrame
    /\ UNCHANGED <<now, usages, call, started>>

\* ------------------------------------------------ Repository.GetBalance
ZeroRow == [balance |-> 0, lifetime_earned |-> 0, lifetime_spent |-> 0,
            last_daily_reward_at |-> Null]

\* SELECT ... WHERE user_id = $1 (no lock)
GbSelect(p) ==
    /\ pc[p] = "gb_select"
    /\ LET u == call[p].user IN
        IF balances[u] = NoRow
        THEN /\ pc' = [pc EXCEPT ![p] = "gb_insert"]
             /\ loc' = loc
        ELSE /\ pc' = [pc EXCEPT ![p] = loc[p].ret]
             /\ loc' = [loc EXCEPT ![p].snapshot = balances[u]]
    /\ UNCHANGED ledgerFrame
    /\ UNCHANGED <<now, balances, transactions, txSeq, usages, rowLock, call, res, started, sweeps>>

\* where the caller continues when GetBalance has returned an error
AfterGetError(p) == IF loc[p].ret = "rl_check" THEN Finish(p) ELSE "done"

\* createInitialBalance: INSERT ... RETURNING, committed on its own
GbInsert(p) ==
    /\ pc[p] = "gb_insert"
    /\ LET u == call[p].user IN
        IF balances[u] # NoRow
        THEN /\ res' = [res EXCEPT ![p] = ErrUnique]
             /\ pc' = [pc EXCEPT ![p] = AfterGetError(p)]
             /\ UNCHANGED <<balances, loc, sweeps>>
        ELSE /\ rowLock[u] = NoProc     \* blocks on an uncommitted insert of the key
             /\ balances' = [balances EXCEPT ![u] = ZeroRow]
             /\ loc' = [loc EXCEPT ![p].snapshot = ZeroRow]
             /\ pc' = [pc EXCEPT ![p] = loc[p].ret]
             /\ sweeps' = NoSweeps
             /\ UNCHANGED res
    /\ UNCHANGED ledgerFrame
    /\ UNCHANGED <<now, transactions, txSeq, usages, rowLock, call, started>>

\* Service.GetBalance: the repository's GetBalance, its result handed to the caller
GetBalance(p) ==
    \E u \in Users :
        Begin(p, [NoCall EXCEPT !.op = "GetBalance", !.user = u],
              "gb_select", [NoLoc EXCEPT !.ret = "done"], ErrNone)

\* the operation has returned to its caller
Return(p) ==
    /\ pc[p] = "done"
    /\ pc' = [pc EXCEPT ![p] = "idle"]
    /\ call' = [call EXCEPT ![p] = NoCall]
    /\ loc' = [loc EXCEPT ![p] = NoLoc]
    /\ res' = [res EXCEPT ![p] = ErrNone]
    /\ UNCHANGED ledgerFrame
    /\ UNCHANGED <<now, balances, transactions, txSeq, usages, rowLock, started, sweeps>>

\* ------------------------------------------------ subscription plan
\* the 'free' plan of the seed data; GetSubscriptionPlan falls back to it for a
\* user with no active subscription
FreePlan == [code |-> "free", daily_neurons |-> FreeDailyNeurons,
             neuron_expiry_days |-> DefaultExpiryDays, neuron_discount |-> 0,
             max_request_length |-> FreeMaxRequestLength,
             available_models |-> {"gpt-3.5-turbo", "claude-3-haiku", "gemini-1.0-pro", "grok-1"}]

\* the 'premium' and 'pro' plans of the seed data
PremiumPlan == [code |-> "premium", daily_neurons |-> PremiumDailyNeurons,
                neuron_expiry_days |-> PremiumExpiryDays,
                neuron_discount |-> PremiumNeuronDiscount,
                max_request_length |-> PremiumMaxRequestLength,
                available_models |-> {"gpt-3.5-turbo", "claude-3-haiku", "gemini-1.0-pro",
                                      "grok-1", "gpt-4o-mini", "claude-3-sonnet",
                                      "gemini-1.5-pro"}]

ProPlan == [code |-> "pro", daily_neurons |-> ProDailyNeurons,
            neuron_expiry_days |-> ProExpiryDays, neuron_discount |-> ProNeuronDiscount,
            max_request_length |-> ProMaxRequestLength,
            available_models |-> {"gpt-3.5-turbo", "claude-3-haiku", "gemini-1.0-pro",
                                  "grok-1", "gpt-4o-mini", "claude-3-sonnet",
                                  "gemini-1.5-pro", "gpt-4o", "claude-3-opus", "grok-2"}]

\* Repository.GetPlanByCode
GetPlanByCode(code) ==
    IF code = "free" THEN FreePlan
    ELSE IF code = "premium" THEN PremiumPlan
    ELSE IF code = "pro" THEN ProPlan
    ELSE NoPlan

StatusActive == "active"
StatusCancelled == "cancelled"
StatusExpired == "expired"

\* variant: the end date is not looked at
IsActiveWhateverEnd(sub, t) == sub.status = StatusActive

\* status = 'active' AND end_date > NOW()
IsActive(sub, t) == sub.status = StatusActive /\ sub.end_date > t

\* Repository.GetActiveSubscription: the rows of the WHERE clause, then the first
\* of ORDER BY end_date DESC (any of them when the end dates are equal)
ActiveSubscriptions(u) ==
    {i \in DOMAIN subscriptions :
        subscriptions[i].user_id = u /\ IsActive(subscriptions[i], now)}

GetActiveSubscription(u) ==
    {i \in ActiveSubscriptions(u) :
        \A j \in ActiveSubscriptions(u) :
            subscriptions[j].end_date <= subscriptions[i].end_date}

\* Service.GetSubscriptionPlan: the plan of the active subscription, or the free
\* plan, which is built in memory and not stored
SubscriptionPlans(u) ==
    IF GetActiveSubscription(u) = {} THEN {FreePlan}
    ELSE {GetPlanByCode(subscriptions[i].plan) : i \in GetActiveSubscription(u)}

GetSubscriptionPlan(u) == CHOOSE plan \in SubscriptionPlans(u) : TRUE

\* variant: the loyalty bonus is not added
GetDailyNeuronsNoBonus(u, loyaltyBonusPercent) == GetSubscriptionPlan(u).daily_neurons

\* subscription.Service.GetDailyNeurons
GetDailyNeurons(u, loyaltyBonusPercent) ==
    LET dailyNeurons == GetSubscriptionPlan(u).daily_neurons IN
    IF loyaltyBonusPercent > 0
    THEN dailyNeurons + (dailyNeurons * loyaltyBonusPercent) \div 100
    ELSE dailyNeurons

\* --------------------------------------------- subscription.Repository
\* Each of CreateSubscription, CancelSubscription and ExpireSubscriptions is one
\* READ COMMITTED transaction: a first statement that locks the rows it matches,
\* then writes to those rows and the COMMIT.  What the transaction writes is kept
\* with the worker until COMMIT.

\* AddDate(0, 1, 0) and AddDate(1, 0, 0), a month taken as 30 days and a year as 365
PeriodLength(period) == IF period = "yearly" THEN 365 * Day ELSE 30 * Day

\* Service.Subscribe: the plan is looked up, then CreateSubscription
Subscribe(p) ==
    \E u \in Users, code \in PlanCodes, period \in Periods :
        LET c == [NoCall EXCEPT !.op = "Subscribe", !.user = u, !.plan = code,
                                !.period = period]
            sub == [user_id |-> u, plan |-> code, status |-> StatusActive,
                    end_date |-> now + PeriodLength(period)]
        IN IF GetPlanByCode(code) = NoPlan
           THEN Begin(p, c, "done", NoLoc, ErrPlanNotFound)
           ELSE Begin(p, c, "sub_statement", [NoLoc EXCEPT !.sub = sub], ErrNone)

\* Service.CancelSubscription, for an id that exists or the next one, which does not
CancelSubscription(p) ==
    \E u \in Users, id \in 1..(Len(subscriptions) + 1) :
        Begin(p, [NoCall EXCEPT !.op = "CancelSubscription", !.user = u, !.subID = id],
              "sub_statement", NoLoc, ErrNone)

\* Repository.ExpireSubscriptions, called by ProcessExpiringSubscriptions
ExpireSubscriptions(p) ==
    Begin(p, [NoCall EXCEPT !.op = "ExpireSubscriptions"], "sub_statement", NoLoc, ErrNone)

\* the WHERE clause of the first statement of the transaction of p
Matches(p, sub) ==
    IF call[p].op = "Subscribe"
    THEN sub.user_id = call[p].user /\ IsActive(sub, now)
    ELSE IF call[p].op = "CancelSubscription"
    THEN sub.id = call[p].subID /\ sub.user_id = call[p].user /\ sub.status = StatusActive
    ELSE sub.status = StatusActive /\ sub.end_date < now

Matching(p) == {i \in DOMAIN subscriptions : Matches(p, subscriptions[i])}

LockedByOther(p, ids) == \E i \in ids : subscriptions[i].lock \notin {NoProc, p}

LockRows(p, ids) ==
    [i \in DOMAIN subscriptions |->
        IF i \in ids THEN [subscriptions[i] EXCEPT !.lock = p] ELSE subscriptions[i]]

UnlockRows(p, rows) ==
    [i \in DOMAIN rows |->
        IF rows[i].lock = p THEN [rows[i] EXCEPT !.lock = NoProc] ELSE rows[i]]

\* the statement has its rows: CancelSubscription returns when RowsAffected is 0
RowsLocked(p, ids) ==
    /\ loc' = [loc EXCEPT ![p].staged = ids]
    /\ IF call[p].op = "CancelSubscription" /\ ids = {}
       THEN /\ res' = [res EXCEPT ![p] = ErrNotFound]
            /\ pc' = [pc EXCEPT ![p] = "done"]
            /\ UNCHANGED subscriptions
       ELSE /\ subscriptions' = LockRows(p, ids)
            /\ pc' = [pc EXCEPT ![p] = "sub_commit"]
            /\ UNCHANGED res

subscriptionFrame == <<now, balances, transactions, txSeq, usages, rowLock, call, started,
                       sweeps, served, coord>>

\* the first statement (UPDATE, or SELECT ... FOR UPDATE): it sees the rows
\* committed when it starts and waits when one of them is locked
SubStatement(p) ==
    /\ pc[p] = "sub_statement"
    /\ IF LockedByOther(p, Matching(p))
       THEN /\ loc' = [loc EXCEPT ![p].visible = Matching(p)]
            /\ pc' = [pc EXCEPT ![p] = "sub_wait"]
            /\ UNCHANGED <<subscriptions, res>>
       ELSE RowsLocked(p, Matching(p))
    /\ UNCHANGED subscriptionFrame

\* the lock holders have ended: the rows the statement saw are checked again in
\* their latest version; rows committed since the statement started are not seen
SubStatementResumed(p) ==
    /\ pc[p] = "sub_wait"
    /\ ~LockedByOther(p, loc[p].visible)
    /\ RowsLocked(p, {i \in loc[p].visible : Matches(p, subscriptions[i])})
    /\ UNCHANGED subscriptionFrame

\* the status the transaction of p gives to the rows it locked
NewStatus(p) == IF call[p].op = "ExpireSubscriptions" THEN StatusExpired ELSE StatusCancelled

\* the remaining statements and COMMIT, or an error and the deferred Rollback
SubCommit(p) ==
    /\ pc[p] = "sub_commit"
    /\ \E ok \in BOOLEAN :
        IF ok
        THEN LET written == [i \in DOMAIN subscriptions |->
                               IF i \in loc[p].staged
                               THEN [subscriptions[i] EXCEPT !.status = NewStatus(p)]
                               ELSE subscriptions[i]]
                 inserted == [id |-> Len(subscriptions) + 1, user_id |-> loc[p].sub.user_id,
                              plan |-> loc[p].sub.plan, status |-> loc[p].sub.status,
                              end_date |-> loc[p].sub.end_date, lock |-> NoProc]
             IN /\ subscriptions' = IF call[p].op = "Subscribe"
                                    THEN Append(UnlockRows(p, written), inserted)
                                    ELSE UnlockRows(p, written)
                /\ res' = [res EXCEPT ![p] = ErrNone]
        ELSE /\ subscriptions' = UnlockRows(p, subscriptions)
             /\ res' = [res EXCEPT ![p] = ErrStore]
    /\ pc' = [pc EXCEPT ![p] = "done"]
    /\ UNCHANGED loc
    /\ UNCHANGED subscriptionFrame

\* Service.GetSubscriptionPlan as a call of its own: one read, nothing written
ResolvePlan(p) ==
    \E u \in Users : \E plan \in SubscriptionPlans(u) :
        Begin(p, [NoCall EXCEPT !.op = "GetSubscriptionPlan", !.user = u],
              "done", [NoLoc EXCEPT !.plan = plan], ErrNone)

\* ------------------------------------------ Service.AddDailyNeurons
\* variant: the grant is allowed from exactly 20 hours on
CanReceiveDailyRewardFrom20h(lastDailyRewardAt, t) ==
    IF lastDailyRewardAt = Null THEN TRUE
    ELSE t - lastDailyRewardAt >= DailyRewardHours * Hour

\* Balance.CanReceiveDailyReward, evaluated at time t
CanReceiveDailyReward(lastDailyRewardAt, t) ==
    IF lastDailyRewardAt = Null THEN TRUE
    ELSE t - lastDailyRewardAt > DailyRewardHours * Hour

AddDailyNeuronsOf(p, percents) ==
    \E u \in Users, b \in percents :
        Begin(p, [NoCall EXCEPT !.op = "AddDailyNeurons", !.user = u, !.percent = b],
              "gb_select", [NoLoc EXCEPT !.ret = "daily_check"], ErrNone)

AddDailyNeurons(p) == AddDailyNeuronsOf(p, LoyaltyPercents)

\* the daily grant of a user without a loyalty bonus
AddDailyNeuronsNoLoyalty(p) == AddDailyNeuronsOf(p, {0})

\* the check on the balance that was read, then the transaction is built
DailyCheck(p) ==
    /\ pc[p] = "daily_check"
    /\ LET u == call[p].user
           dailyNeurons == GetDailyNeurons(u, call[p].percent)
           neuronExpiryDays == GetSubscriptionPlan(u).neuron_expiry_days
           tx == [user_id |-> u, amount |-> dailyNeurons, transaction_type |-> TypeDaily,
                  expires_at |-> now + neuronExpiryDays * Day, reference_id |-> ""]
       IN
        IF ~CanReceiveDailyReward(loc[p].snapshot.last_daily_reward_at, now)
        THEN /\ res' = [res EXCEPT ![p] = ErrAlreadyGranted]
             /\ pc' = [pc EXCEPT ![p] = "done"]
             /\ loc' = [loc EXCEPT ![p].checkedAt = now]
        ELSE /\ pc' = [pc EXCEPT ![p] = "tx_select"]
             /\ loc' = [loc EXCEPT ![p].checkedAt = now, ![p].tx = tx]
             /\ UNCHANGED res
    /\ UNCHANGED ledgerFrame
    /\ UNCHANGED <<now, balances, transactions, txSeq, usages, rowLock, call, started, sweeps>>

\* ------------------------------------------ Repository.ExpireNeurons
Digits == <<"0", "1", "2", "3", "4", "5", "6", "7", "8", "9">>

\* id::text
RECURSIVE IdText(_)
IdText(id) == IF id < 10 THEN Digits[id + 1]
              ELSE IdText(id \div 10) \o Digits[(id % 10) + 1]

\* the NOT EXISTS subquery: an admin debit whose reference_id is the id of t
Reversed(t) ==
    \E i \in 1..Len(transactions) :
        /\ transactions[i].reference_id = IdText(t.id)
        /\ transactions[i].transaction_type = TypeAdmin
        /\ transactions[i].amount < 0

\* the WHERE clause of the selection query
IsExpired(t) ==
    /\ t.expires_at # Null
    /\ t.expires_at < now
    /\ t.amount > 0
    /\ ~Reversed(t)

RECURSIVE ExpiredSum(_, _)
ExpiredSum(log, u) ==
    IF log = <<>> THEN 0
    ELSE (IF Head(log).user_id = u /\ IsExpired(Head(log)) THEN Head(log).amount ELSE 0)
         + ExpiredSum(Tail(log), u)

ExpiredUsers ==
    {u \in Users : \E i \in 1..Len(transactions) :
                      transactions[i].user_id = u /\ IsExpired(transactions[i])}

\* the rows of the selection query, in any order (GROUP BY gives none)
ExpiredEntries ==
    {e \in [1..Cardinality(ExpiredUsers) -> [UserID : ExpiredUsers, Amount : 1..9]] :
        /\ \A i, j \in DOMAIN e : i # j => e[i].UserID # e[j].UserID
        /\ \A i \in DOMAIN e : e[i].Amount = ExpiredSum(transactions, e[i].UserID)}

ExpireNeurons(p) ==
    Begin(p, [NoCall EXCEPT !.op = "ExpireNeurons"], "exp_select", NoLoc, ErrNone)

ExpSelect(p) ==
    /\ pc[p] = "exp_select"
    /\ \E e \in ExpiredEntries :
        /\ loc' = [loc EXCEPT ![p].entries = e, ![p].selected = e]
        /\ pc' = [pc EXCEPT ![p] = IF e = <<>> THEN "exp_commit" ELSE "exp_lock"]
    /\ sweeps' = [sweeps EXCEPT !.running = @ \cup {p},
                                !.second = IF sweeps.n >= 1 THEN @ \cup {p} ELSE @ \ {p}]
    /\ UNCHANGED ledgerFrame
    /\ UNCHANGED <<now, balances, transactions, txSeq, usages, rowLock, call, res, started>>

\* variant: the whole expired sum is taken
AmountToExpireUncapped(amount, currentBalance) == amount

\* amountToExpire: no more than the balance
AmountToExpire(amount, currentBalance) == Min(amount, currentBalance)

\* variant: the reversal records the balance it found
ExpiryBalanceBefore(currentBalance, newBalance) == currentBalance

\* balance_after of the reversal
ExpiryBalanceAfter(currentBalance, newBalance) == newBalance

\* the locks of p are released by COMMIT or by the deferred Rollback
ReleaseLocks(p) == [u \in Users |-> IF rowLock[u] = p THEN NoProc ELSE rowLock[u]]

\* the balance table after the UPDATEs of a sweep
SweptBalances(pending) ==
    [u \in Users |->
        IF \E i \in 1..Len(pending) : pending[i].UserID = u
        THEN [balances[u] EXCEPT !.balance =
                 pending[CHOOSE i \in 1..Len(pending) : pending[i].UserID = u].NewBalance]
        ELSE balances[u]]

\* variant: the UPDATEs made before the error stay in the table
BalancesOfFailedSweepKept(pending) == SweptBalances(pending)

\* the balance table once ExpireNeurons has returned an error: the deferred Rollback
\* undoes the UPDATEs of the users already processed
BalancesOfFailedSweep(pending) == balances

\* one entry: SELECT balance FOR UPDATE (READ COMMITTED), UPDATE, INSERT
ExpLock(p) ==
    /\ pc[p] = "exp_lock"
    /\ LET entry == Head(loc[p].entries)
           u == entry.UserID
           rest == Tail(loc[p].entries)
       IN
        IF balances[u] = NoRow
        THEN /\ res' = [res EXCEPT ![p] = ErrStore]
             /\ pc' = [pc EXCEPT ![p] = "done"]
             /\ rowLock' = ReleaseLocks(p)
             /\ balances' = BalancesOfFailedSweep(loc[p].pending)
             /\ loc' = loc
        ELSE /\ rowLock[u] = NoProc     \* waits for the holder, then reads the latest row
             /\ \E ok \in BOOLEAN :
                 IF ok
                 THEN LET currentBalance == balances[u].balance
                          amountToExpire == AmountToExpire(entry.Amount, currentBalance)
                          newBalance == currentBalance - amountToExpire
                      IN /\ rowLock' = AcquireRowLock(p, u)
                         /\ loc' = [loc EXCEPT
                                ![p].entries = rest,
                                ![p].pending =
                                    IF amountToExpire <= 0 THEN @
                                    ELSE Append(@, [UserID |-> u, Amount |-> amountToExpire,
                                                    NewBalance |-> newBalance,
                                                    BalanceAfter |->
                                                      ExpiryBalanceAfter(currentBalance, newBalance)])]
                         /\ pc' = [pc EXCEPT ![p] = IF rest = <<>> THEN "exp_commit" ELSE "exp_lock"]
                         /\ UNCHANGED <<res, balances>>
                 ELSE /\ res' = [res EXCEPT ![p] = ErrStore]
                      /\ pc' = [pc EXCEPT ![p] = "done"]
                      /\ rowLock' = ReleaseLocks(p)
                      /\ balances' = BalancesOfFailedSweep(loc[p].pending)
                      /\ loc' = loc
    /\ UNCHANGED ledgerFrame
    /\ UNCHANGED <<now, transactions, txSeq, usages, call, started, sweeps>>

\* two sweeps wait for each other's row: the store aborts one of them
ExpDeadlock(p) ==
    /\ pc[p] = "exp_lock"
    /\ LET u == Head(loc[p].entries).UserID
           q == rowLock[u]
       IN /\ q \in Procs \ {p}
          /\ pc[q] = "exp_lock"
          /\ rowLock[Head(loc[q].entries).UserID] = p
    /\ res' = [res EXCEPT ![p] = ErrDeadlock]
    /\ pc' = [pc EXCEPT ![p] = "done"]
    /\ rowLock' = ReleaseLocks(p)
    /\ UNCHANGED ledgerFrame
    /\ UNCHANGED <<now, balances, transactions, txSeq, usages, call, loc, started, sweeps>>

\* variant: the reversal rows carry no reference
ReversalRowsUntagged(pending) ==
    [i \in 1..Len(pending) |->
        [id |-> txSeq + i, user_id |-> pending[i].UserID, amount |-> 0 - pending[i].Amount,
         balance_after |-> pending[i].BalanceAfter, transaction_type |-> TypeAdmin,
         expires_at |-> Null, reference_id |-> ""]]

\* the reversal rows of a sweep: admin debits with reference_id 'expire_system'
ReversalRows(pending) ==
    [i \in 1..Len(pending) |->
        [id |-> txSeq + i, user_id |-> pending[i].UserID, amount |-> 0 - pending[i].Amount,
         balance_after |-> pending[i].BalanceAfter, transaction_type |-> TypeAdmin,
         expires_at |-> Null, reference_id |-> "expire_system"]]

ExpCommit(p) ==
    /\ pc[p] = "exp_commit"
    /\ LET pending == loc[p].pending
           touched == {pending[i].UserID : i \in 1..Len(pending)}
       IN \E ok \in BOOLEAN :
           /\ txSeq' = txSeq + Len(pending)
           /\ rowLock' = ReleaseLocks(p)
           /\ IF ok
              THEN /\ balances' = SweptBalances(pending)
                   /\ transactions' = transactions \o ReversalRows(pending)
                   /\ res' = [res EXCEPT ![p] = ErrNone]
                   /\ pc' = AfterCommit(p, "done", touched)
                   /\ sweeps' = IF p \notin sweeps.running THEN NoSweeps
                                ELSE IF sweeps.n >= 1 /\ p \in sweeps.second
                                THEN [NoSweeps EXCEPT !.n = 2, !.after = sweeps.after]
                                ELSE [NoSweeps EXCEPT !.n = 1,
                                                      !.after = SweptBalances(pending)]
              ELSE /\ res' = [res EXCEPT ![p] = ErrStore]
                   /\ pc' = [pc EXCEPT ![p] = "done"]
                   /\ balances' = BalancesOfFailedSweep(pending)
                   /\ UNCHANGED <<transactions, sweeps>>
    /\ UNCHANGED ledgerFrame
    /\ UNCHANGED <<now, usages, call, loc, started>>

\* ------------------------------------------ Service.RecordLLMUsage
\* strings.Contains
Contains(s, substr) ==
    \E i \in 1..(Len(s) - Len(substr) + 1) : SubSeq(s, i, i + Len(substr) - 1) = substr

\* the digest of the prompt bytes followed by the model bytes; two inputs have the
\* same digest exactly when the concatenated bytes are the same
generateRequestHash(requestText, modelName) == requestText \o modelName

\* GetLLMUsageByHash: the latest row with the hash, or none
GetLLMUsageByHash(requestHash) ==
    LET hits == {i \in 1..Len(usages) : usages[i].request_hash = requestHash} IN
    IF hits = {} THEN NoUsage
    ELSE usages[CHOOSE i \in hits : \A j \in hits : j <= i]

\* generateRequestHash on its own, for any two strings
HashRequest(p) ==
    \E t \in HashTexts, m \in HashModels :
        Begin(p, [NoCall EXCEPT !.op = "generateRequestHash", !.text = t, !.model = m],
              "done", [NoLoc EXCEPT !.hash = generateRequestHash(t, m)], ErrNone)

RecordLLMUsage(p) ==
    \E u \in Users, m \in Models, t \in Prompts, neuronsCost \in Costs :
        Begin(p, [NoCall EXCEPT !.op = "RecordLLMUsage", !.user = u, !.model = m,
                                !.text = t, !.amount = neuronsCost],
              "rl_lookup",
              [NoLoc EXCEPT !.hash = generateRequestHash(t, m), !.cost = neuronsCost],
              ErrNone)

\* the cache lookup; an error of the lookup is logged and read as "not found"
RlLookup(p) ==
    /\ pc[p] = "rl_lookup"
    /\ \E failed \in BOOLEAN :
        LET cachedUsage == IF failed THEN NoUsage ELSE GetLLMUsageByHash(loc[p].hash) IN
        IF cachedUsage # NoUsage
        THEN /\ loc' = [loc EXCEPT ![p].cached = TRUE]
             /\ pc' = [pc EXCEPT ![p] = "rl_add_usage"]
        ELSE IF loc[p].cost > 0
        THEN /\ loc' = [loc EXCEPT ![p].ret = "rl_check"]
             /\ pc' = [pc EXCEPT ![p] = "gb_select"]
        ELSE /\ loc' = loc
             /\ pc' = [pc EXCEPT ![p] = "rl_add_usage"]
    /\ UNCHANGED ledgerFrame
    /\ UNCHANGED <<now, balances, transactions, txSeq, usages, rowLock, call, res, started, sweeps>>

\* balance.Balance < neuronsCost on the balance that was read, then the debit is built
RlCheck(p) ==
    /\ pc[p] = "rl_check"
    /\ IF loc[p].snapshot.balance < loc[p].cost
       THEN /\ res' = [res EXCEPT ![p] = ErrNotEnough]
            /\ pc' = [pc EXCEPT ![p] = Finish(p)]
            /\ loc' = loc
       ELSE /\ loc' = [loc EXCEPT ![p].tx =
                          [user_id |-> call[p].user, amount |-> 0 - loc[p].cost,
                           transaction_type |-> TypeUsage, expires_at |-> Null,
                           reference_id |-> ""]]
            /\ pc' = [pc EXCEPT ![p] = "tx_select"]
            /\ UNCHANGED res
    /\ UNCHANGED ledgerFrame
    /\ UNCHANGED <<now, balances, transactions, txSeq, usages, rowLock, call, started, sweeps>>

\* variant: the row of a charged request does not carry the transaction
UsageRowUnlinked(p) ==
    [id |-> Len(usages) + 1, user_id |-> call[p].user, model_name |-> call[p].model,
     neurons_cost |-> IF loc[p].cached THEN 0 ELSE loc[p].cost,
     transaction_id |-> Null,
     request_hash |-> loc[p].hash, cached |-> loc[p].cached]

\* the llm_usage row RecordLLMUsage writes: free for a cached answer
UsageRow(p) ==
    [id |-> Len(usages) + 1, user_id |-> call[p].user, model_name |-> call[p].model,
     neurons_cost |-> IF loc[p].cached THEN 0 ELSE loc[p].cost,
     transaction_id |-> IF loc[p].cached THEN Null ELSE loc[p].txID,
     request_hash |-> loc[p].hash, cached |-> loc[p].cached]

\* Repository.AddLLMUsage, a statement of its own after the debit has committed
RlAddUsage(p) ==
    /\ pc[p] = "rl_add_usage"
    /\ \E ok \in BOOLEAN :
        IF ok
        THEN /\ usages' = Append(usages, UsageRow(p))
             /\ res' = [res EXCEPT ![p] = ErrNone]
        ELSE /\ usages' = usages
             /\ res' = [res EXCEPT ![p] = ErrStore]
    /\ pc' = [pc EXCEPT ![p] = Finish(p)]
    /\ UNCHANGED ledgerFrame
    /\ UNCHANGED <<now, balances, transactions, txSeq, rowLock, call, loc, started, sweeps>>

\* ------------------------------------------ llm.Service.ProcessRequest
CheckModelAccess(u, modelName) == modelName \in GetSubscriptionPlan(u).available_models

\* variant: no plan limits the length
CheckRequestLengthUnlimited(u, message) == TRUE

\* len([]rune(message)) > maxLength is refused; maxLength 0 is no limit
CheckRequestLength(u, message) ==
    LET maxLength == GetSubscriptionPlan(u).max_request_length IN
    maxLength = 0 \/ Len(message) <= maxLength

\* variant: every model is priced as a premium one
GetRequestCostPremium(modelName) == PremiumModelCost

GetRequestCost(modelName) ==
    IF Contains(modelName, "gpt-4") THEN ProModelCost
    ELSE IF Contains(modelName, "gpt-3.5") THEN BaseModelCost
    ELSE IF Contains(modelName, "claude-3-opus") THEN ProModelCost
    ELSE IF Contains(modelName, "claude-3-sonnet") THEN PremiumModelCost
    ELSE IF Contains(modelName, "claude-3-haiku") THEN BaseModelCost
    ELSE IF Contains(modelName, "grok-2") THEN ProModelCost
    ELSE IF Contains(modelName, "grok-1") THEN BaseModelCost
    ELSE IF Contains(modelName, "gemini-1.5") THEN PremiumModelCost
    ELSE IF Contains(modelName, "gemini-1.0") THEN BaseModelCost
    ELSE BaseModelCost

\* variant: the discounted cost is not raised to 1
DiscountedCostNoFloor(discount, cost) ==
    IF discount <= 0 THEN cost ELSE cost - (cost * discount) \div 100

\* the arithmetic of ApplyNeuronDiscount on the plan's discount
DiscountedCost(discount, cost) ==
    LET discountedCost == cost - (cost * discount) \div 100
    IN IF discount <= 0 THEN cost
       ELSE IF discountedCost < 1 THEN 1
       ELSE discountedCost

ApplyNeuronDiscount(u, cost) ==
    DiscountedCost(GetSubscriptionPlan(u).neuron_discount, cost)

\* ApplyNeuronDiscount on its own, for a plan with the given discount
ApplyDiscount(p) ==
    \E cost \in BaseCosts, discount \in DiscountPercents :
        Begin(p, [NoCall EXCEPT !.op = "ApplyNeuronDiscount", !.amount = cost,
                                !.percent = discount],
              "done", [NoLoc EXCEPT !.cost = DiscountedCost(discount, cost)], ErrNone)

\* the checks made before anything is read from the ledger
ProcessRequestOf(p, models, prompts) ==
    \E u \in Users, m \in models, t \in prompts :
        LET c == [NoCall EXCEPT !.op = "ProcessRequest", !.user = u, !.model = m,
                                !.text = t, !.amount = GetRequestCost(m)]
        IN IF ~CheckModelAccess(u, m) THEN Begin(p, c, "done", NoLoc, ErrNoAccess)
           ELSE IF ~CheckRequestLength(u, t) THEN Begin(p, c, "done", NoLoc, ErrTooLong)
           ELSE Begin(p, c, "gb_select",
                      [NoLoc EXCEPT !.ret = "pr_enough", !.after = Len(served)], ErrNone)

ProcessRequest(p) == ProcessRequestOf(p, RequestModels, RequestPrompts)

\* requests that name a base model or one of the pro tier
ProcessRequestAnyTier(p) == ProcessRequestOf(p, TierModels, Prompts)

\* variant: the usage is recorded whatever the provider returned
AfterInvokeAlwaysRecords(ok) == "rl_lookup"

\* where ProcessRequest continues after client.ProcessRequest: an error is returned
\* at once, without a second call
AfterInvoke(ok) == IF ok THEN "rl_lookup" ELSE "done"

\* HasEnoughNeurons on the balance that was read, then the provider is called
PrInvoke(p) ==
    /\ pc[p] = "pr_enough"
    /\ IF loc[p].snapshot.balance < call[p].amount
       THEN /\ res' = [res EXCEPT ![p] = ErrNotEnough]
            /\ pc' = [pc EXCEPT ![p] = "done"]
            /\ loc' = loc
       ELSE \E ok \in BOOLEAN :
            IF ok
            THEN /\ loc' = [loc EXCEPT
                              ![p].invoked = TRUE,
                              ![p].attempts = @ + 1,
                              ![p].cost = ApplyNeuronDiscount(call[p].user, call[p].amount),
                              ![p].hash = generateRequestHash(call[p].text, call[p].model)]
                 /\ pc' = [pc EXCEPT ![p] = AfterInvoke(ok)]
                 /\ UNCHANGED res
            ELSE /\ res' = [res EXCEPT ![p] = ErrProvider]
                 /\ pc' = [pc EXCEPT ![p] = AfterInvoke(ok)]
                 /\ loc' = [loc EXCEPT ![p].attempts = @ + 1]
    /\ UNCHANGED ledgerFrame
    /\ UNCHANGED <<now, balances, transactions, txSeq, usages, rowLock, call, started, sweeps>>

\* an error of RecordLLMUsage is logged; the response is returned with a nil error
PrFinish(p) ==
    /\ pc[p] = "pr_finish"
    /\ served' = Append(served, [user |-> call[p].user, model |-> call[p].model,
                                 text |-> call[p].text, after |-> loc[p].after,
                                 debited |-> loc[p].txID # Null,
                                 cached |-> loc[p].cached, recordErr |-> res[p]])
    /\ loc' = [loc EXCEPT ![p].recordErr = res[p]]
    /\ res' = [res EXCEPT ![p] = ErrNone]
    /\ pc' = [pc EXCEPT ![p] = "done"]
    /\ UNCHANGED <<coord, subscriptions>>
    /\ UNCHANGED <<now, balances, transactions, txSeq, usages, rowLock, call, started, sweeps>>

\* ------------------------------------------ MessageWorker.handleMessage
\* the coordinator leaves the ledger alone
coordFrame == <<now, balances, transactions, txSeq, usages, rowLock, subscriptions, pc,
                call, loc, res, started, sweeps, served>>

Reply == "reply"
RegistrationNotice == "registration_error_notice"

\* variant: after messageChan the function returns at once
SelectCaseNoJoin(k) ==
    IF k = 1 THEN "wait_message"
    ELSE IF k = 2 THEN "wait_message_notice"
    ELSE "returned"

\* where handleMessage continues once the select has taken case k:
\* 1 userRegisteredChan, 2 userRegistrationFailed, 3 messageChan
SelectCase(k) ==
    IF k = 1 THEN "wait_message"
    ELSE IF k = 2 THEN "wait_message_notice"
    ELSE "wait_registered"

\* the cases of the select that can proceed
ReadyCases(c) ==
    (IF c.userRegisteredChan = "closed" THEN {1} ELSE {})
    \cup (IF c.userRegistrationFailed # <<>> THEN {2} ELSE {})
    \cup (IF c.messageChan = "closed" THEN {3} ELSE {})

\* the update is parsed and the two goroutines are started
handleMessage(m) ==
    /\ coord[m].main = "idle"
    /\ \E update \in {"garbled", "unsupported", "message", "callback"} :
        coord' = [coord EXCEPT ![m] =
                    IF update \in {"garbled", "unsupported"}
                    THEN [@ EXCEPT !.update = update, !.main = "returned"]
                    ELSE [@ EXCEPT !.update = update, !.main = "select",
                                   !.reg = "ensure", !.msg = "handle"]]
    /\ UNCHANGED coordFrame

\* variant: userRegisteredChan is closed only when EnsureUserExists succeeded
AfterIdentityCloseOnSuccess(err) == IF err THEN "exited" ELSE "close"

\* defer close(userRegisteredChan) runs when the goroutine's function returns, with
\* or without an error
AfterIdentity(err) == "close"

\* identity goroutine: EnsureUserExists returns, within its 2 s deadline or with the
\* deadline's error
EnsureUserExists(m) ==
    /\ coord[m].reg = "ensure"
    /\ \E failed \in BOOLEAN :
        coord' = [coord EXCEPT ![m] =
                    IF failed
                    THEN [@ EXCEPT !.reg = "send", !.err = TRUE,
                                   !.failedFirst = (coord[m].msg = "handle")]
                    ELSE [@ EXCEPT !.reg = AfterIdentity(FALSE)]]
    /\ UNCHANGED coordFrame

\* identity goroutine: the non-blocking send of the error (buffer of one)
SendRegistrationFailed(m) ==
    /\ coord[m].reg = "send"
    /\ coord' = [coord EXCEPT ![m] =
                    IF @.main = "parked"
                    THEN [@ EXCEPT !.reg = AfterIdentity(TRUE), !.main = SelectCase(2),
                                   !.case = 2]
                    ELSE IF Len(@.userRegistrationFailed) < 1
                    THEN [@ EXCEPT !.reg = AfterIdentity(TRUE),
                                   !.userRegistrationFailed = Append(@, "err")]
                    ELSE [@ EXCEPT !.reg = AfterIdentity(TRUE)]]
    /\ UNCHANGED coordFrame

\* identity goroutine: the deferred close(userRegisteredChan)
CloseUserRegistered(m) ==
    /\ coord[m].reg = "close"
    /\ coord' = [coord EXCEPT ![m] =
                    IF @.main = "parked"
                    THEN [@ EXCEPT !.reg = "exited", !.userRegisteredChan = "closed",
                                   !.main = SelectCase(1), !.case = 1]
                    ELSE [@ EXCEPT !.reg = "exited", !.userRegisteredChan = "closed"]]
    /\ UNCHANGED coordFrame

\* handling goroutine: handleTextMessage / handleCallbackQuery; an empty text is
\* dropped without a reply
HandleUpdate(m) ==
    /\ coord[m].msg = "handle"
    /\ \E replied \in BOOLEAN :
        coord' = [coord EXCEPT ![m] =
                    [@ EXCEPT !.msg = "close",
                              !.outbox = IF replied THEN Append(@, Reply) ELSE @]]
    /\ UNCHANGED coordFrame

\* handling goroutine: the deferred close(messageChan)
CloseMessageChan(m) ==
    /\ coord[m].msg = "close"
    /\ coord' = [coord EXCEPT ![m] =
                    IF @.main = "parked"
                    THEN [@ EXCEPT !.msg = "exited", !.messageChan = "closed",
                                   !.main = SelectCase(3), !.case = 3]
                    ELSE [@ EXCEPT !.msg = "exited", !.messageChan = "closed"]]
    /\ UNCHANGED coordFrame

\* the select: one of the ready cases, any of them; with none ready the caller parks
\* and the first channel operation wakes it
Select(m) ==
    /\ coord[m].main = "select"
    /\ LET ready == ReadyCases(coord[m]) IN
        IF ready = {}
        THEN coord' = [coord EXCEPT ![m].main = "parked"]
        ELSE \E k \in ready :
                coord' = [coord EXCEPT ![m] =
                            [@ EXCEPT !.main = SelectCase(k), !.case = k,
                                      !.userRegistrationFailed =
                                          IF k = 2 THEN Tail(@) ELSE @]]
    /\ UNCHANGED coordFrame

\* <-messageChan after case 1
WaitMessage(m) ==
    /\ coord[m].main = "wait_message"
    /\ coord[m].messageChan = "closed"
    /\ coord' = [coord EXCEPT ![m].main = "returned"]
    /\ UNCHANGED coordFrame

\* variant: after case 2 the notice is sent first, then messageChan is awaited
NotifyThenWaitMessage(m) ==
    /\ coord[m].main = "wait_message_notice"
    /\ coord' = [coord EXCEPT ![m].main = "wait_message",
                              ![m].outbox = Append(@, RegistrationNotice)]
    /\ UNCHANGED coordFrame

\* <-messageChan after case 2, then the notice is sent to the chat
WaitMessageThenNotify(m) ==
    /\ coord[m].main = "wait_message_notice"
    /\ coord[m].messageChan = "closed"
    /\ coord' = [coord EXCEPT ![m].main = "returned",
                              ![m].outbox = Append(@, RegistrationNotice)]
    /\ UNCHANGED coordFrame

\* <-userRegisteredChan after case 3
WaitRegistered(m) ==
    /\ coord[m].main = "wait_registered"
    /\ coord[m].userRegisteredChan = "closed"
    /\ coord' = [coord EXCEPT ![m].main = "returned"]
    /\ UNCHANGED coordFrame

\* ------------------------------------------------------- specifications
\* the ledger: grants, spends, daily grants, usage records and sweeps of two workers
Next ==
    \/ Tick
    \/ \E p \in Procs :
        \/ AddNeurons(p)
        \/ SpendNeurons(p)
        \/ AddDailyNeurons(p)
        \/ RecordLLMUsage(p)
        \/ ExpireNeurons(p)
        \/ GbSelect(p)
        \/ GbInsert(p)
        \/ DailyCheck(p)
        \/ RlLookup(p)
        \/ RlCheck(p)
        \/ RlAddUsage(p)
        \/ TxSelect(p)
        \/ TxLockGranted(p)
        \/ TxSerializationFailure(p)
        \/ TxInsertRow(p)
        \/ TxApply(p)
        \/ ExpSelect(p)
        \/ ExpLock(p)
        \/ ExpDeadlock(p)
        \/ ExpCommit(p)
        \/ Return(p)

Spec == Init /\ [][Next]_vars

\* first accesses: balance reads and grants of two workers on users with and without a row
NextBalance ==
    \E p \in Procs :
        \/ GetBalance(p)
        \/ AddNeurons(p)
        \/ GbSelect(p)
        \/ GbInsert(p)
        \/ TxSelect(p)
        \/ TxLockGranted(p)
        \/ TxSerializationFailure(p)
        \/ TxInsertRow(p)
        \/ TxApply(p)
        \/ Return(p)

SpecBalance == Init /\ [][NextBalance]_vars

\* the discount arithmetic on every base cost and discount
NextDiscount ==
    \E p \in Procs :
        \/ ApplyDiscount(p)
        \/ Return(p)

InitDiscount == InitWith({EmptyStore})

\* the fingerprints of requests hashed by two workers
NextHash ==
    \E p \in Procs :
        \/ HashRequest(p)
        \/ Return(p)

SpecHash == InitDiscount /\ [][NextHash]_vars

SpecDiscount == InitDiscount /\ [][NextDiscount]_vars

\* user 1 holds a premium subscription that ends after one day
SubscribedStore ==
    [balances |-> EmptyStore.balances, transactions |-> <<>>, txSeq |-> 0, usages |-> <<>>,
     subscriptions |-> <<[id |-> 1, user_id |-> 1, plan |-> "premium",
                          status |-> StatusActive, end_date |-> Day, lock |-> NoProc]>>]

InitSubscriptions == InitWith({EmptyStore, SubscribedStore})

\* subscriptions created, cancelled, expired and read by two workers
NextSubscriptions ==
    \/ Tick
    \/ \E p \in Procs :
        \/ Subscribe(p)
        \/ CancelSubscription(p)
        \/ ExpireSubscriptions(p)
        \/ ResolvePlan(p)
        \/ SubStatement(p)
        \/ SubStatementResumed(p)
        \/ SubCommit(p)
        \/ Return(p)

SpecSubscriptions == InitSubscriptions /\ [][NextSubscriptions]_vars

\* grants and spends with amounts below, at and above zero
NextAmounts ==
    \E p \in Procs :
        \/ AddNeuronsSigned(p)
        \/ SpendNeuronsSigned(p)
        \/ TxSelect(p)
        \/ TxLockGranted(p)
        \/ TxSerializationFailure(p)
        \/ TxInsertRow(p)
        \/ TxApply(p)
        \/ Return(p)

SpecAmounts == Init /\ [][NextAmounts]_vars

\* daily grants around the 20 hour window
DailyClock == {0, DailyRewardHours * Hour - 1, DailyRewardHours * Hour,
               DailyRewardHours * Hour + 1}

\* user 1 received the daily grant of the free plan at time 0
DailyStore ==
    [balances |-> [u \in Users |->
                     IF u = 1
                     THEN [balance |-> FreeDailyNeurons, lifetime_earned |-> FreeDailyNeurons,
                           lifetime_spent |-> 0, last_daily_reward_at |-> 0]
                     ELSE NoRow],
     transactions |-> <<[id |-> 1, user_id |-> 1, amount |-> FreeDailyNeurons,
                         balance_after |-> FreeDailyNeurons, transaction_type |-> TypeDaily,
                         expires_at |-> DefaultExpiryDays * Day, reference_id |-> ""]>>,
     txSeq |-> 1, usages |-> <<>>]

InitDaily == InitWith({EmptyStore, DailyStore})

TickDaily == TickIn(DailyClock)

\* AddDailyNeurons reads the balance first, which creates a missing row, so its
\* AddTransaction always finds the row
NextDaily ==
    \/ TickDaily
    \/ \E p \in Procs :
        \/ AddDailyNeurons(p)
        \/ GbSelect(p)
        \/ GbInsert(p)
        \/ DailyCheck(p)
        \/ TxSelect(p)
        \/ TxLockGranted(p)
        \/ TxSerializationFailure(p)
        \/ TxApply(p)
        \/ Return(p)

SpecDaily == InitDaily /\ [][NextDaily]_vars

\* metered requests; HasEnoughNeurons reads the balance first, so the debit always
\* finds the row
NextLLM ==
    \E p \in Procs :
        \/ ProcessRequest(p)
        \/ GbSelect(p)
        \/ GbInsert(p)
        \/ PrInvoke(p)
        \/ RlLookup(p)
        \/ RlCheck(p)
        \/ TxSelect(p)
        \/ TxLockGranted(p)
        \/ TxSerializationFailure(p)
        \/ TxApply(p)
        \/ RlAddUsage(p)
        \/ PrFinish(p)
        \/ Return(p)

SpecLLM == Init /\ [][NextLLM]_vars

\* a new user's day: the daily grant without a loyalty bonus, then metered requests
NextScenario ==
    \/ Tick
    \/ \E p \in Procs :
        \/ AddDailyNeuronsNoLoyalty(p)
        \/ ProcessRequest(p)
        \/ GbSelect(p)
        \/ GbInsert(p)
        \/ DailyCheck(p)
        \/ PrInvoke(p)
        \/ RlLookup(p)
        \/ RlCheck(p)
        \/ TxSelect(p)
        \/ TxLockGranted(p)
        \/ TxSerializationFailure(p)
        \/ TxApply(p)
        \/ RlAddUsage(p)
        \/ PrFinish(p)
        \/ Return(p)

InitScenario == InitWith({EmptyStore})

SpecScenario == InitScenario /\ [][NextScenario]_vars

\* user 1 bought one neuron and spent it on the prompt "hi" to gpt-3.5-turbo:
\* the balance is 0 and the usage row of that request is in the table
RepeatStore ==
    [balances |-> [u \in Users |->
                     IF u = 1
                     THEN [balance |-> 0, lifetime_earned |-> 1, lifetime_spent |-> 1,
                           last_daily_reward_at |-> Null]
                     ELSE NoRow],
     transactions |-> <<[id |-> 1, user_id |-> 1, amount |-> 1, balance_after |-> 1,
                         transaction_type |-> TypePurchase, expires_at |-> Null,
                         reference_id |-> ""],
                        [id |-> 2, user_id |-> 1, amount |-> 0 - 1, balance_after |-> 0,
                         transaction_type |-> TypeUsage, expires_at |-> Null,
                         reference_id |-> ""]>>,
     txSeq |-> 2,
     usages |-> <<[id |-> 1, user_id |-> 1, model_name |-> "gpt-3.5-turbo",
                   neurons_cost |-> 1, transaction_id |-> 2,
                   request_hash |-> generateRequestHash("hi", "gpt-3.5-turbo"),
                   cached |-> FALSE]>>]

\* user 1 holds a pro subscription and bought four neurons; user 2 bought five
ProStore ==
    [balances |-> [u \in Users |->
                     [balance |-> IF u = 1 THEN 4 ELSE 5,
                      lifetime_earned |-> IF u = 1 THEN 4 ELSE 5,
                      lifetime_spent |-> 0, last_daily_reward_at |-> Null]],
     transactions |-> <<[id |-> 1, user_id |-> 1, amount |-> 4, balance_after |-> 4,
                         transaction_type |-> TypePurchase, expires_at |-> Null,
                         reference_id |-> ""],
                        [id |-> 2, user_id |-> 2, amount |-> 5, balance_after |-> 5,
                         transaction_type |-> TypePurchase, expires_at |-> Null,
                         reference_id |-> ""]>>,
     txSeq |-> 2, usages |-> <<>>,
     subscriptions |-> <<[id |-> 1, user_id |-> 1, plan |-> "pro",
                          status |-> StatusActive, end_date |-> 30 * Day, lock |-> NoProc],
                         [id |-> 2, user_id |-> 2, plan |-> "pro",
                          status |-> StatusActive, end_date |-> 30 * Day, lock |-> NoProc]>>]

InitTiers == InitWith({RepeatStore, ProStore})

\* metered requests of users with and without a paid plan
NextTiers ==
    \E p \in Procs :
        \/ ProcessRequestAnyTier(p)
        \/ GbSelect(p)
        \/ GbInsert(p)
        \/ PrInvoke(p)
        \/ RlLookup(p)
        \/ RlCheck(p)
        \/ TxSelect(p)
        \/ TxLockGranted(p)
        \/ TxSerializationFailure(p)
        \/ TxApply(p)
        \/ RlAddUsage(p)
        \/ PrFinish(p)
        \/ Return(p)

SpecTiers == InitTiers /\ [][NextTiers]_vars

\* the message worker on two inbound actions
InitCoord == InitWith({EmptyStore})

NextCoord ==
    \E m \in Actions :
        \/ handleMessage(m)
        \/ EnsureUserExists(m)
        \/ SendRegistrationFailed(m)
        \/ CloseUserRegistered(m)
        \/ HandleUpdate(m)
        \/ CloseMessageChan(m)
        \/ Select(m)
        \/ WaitMessage(m)
        \/ WaitMessageThenNotify(m)
        \/ WaitRegistered(m)

SpecCoord == InitCoord /\ [][NextCoord]_vars

\* the Go scheduler runs every goroutine that can take a step; EnsureUserExists
\* returns by its deadline and the handlers return
CoordFairness ==
    \A m \in Actions :
        /\ WF_vars(EnsureUserExists(m))
        /\ WF_vars(SendRegistrationFailed(m))
        /\ WF_vars(CloseUserRegistered(m))
        /\ WF_vars(HandleUpdate(m))
        /\ WF_vars(CloseMessageChan(m))
        /\ WF_vars(Select(m))
        /\ WF_vars(WaitMessage(m))
        /\ WF_vars(WaitMessageThenNotify(m))
        /\ WF_vars(WaitRegistered(m))

SpecCoordFair == SpecCoord /\ CoordFairness

\* ---------------------------------------------------------------- claims
Last(s) == s[Len(s)]

\* C1: under any interleaving of grants, spends, daily grants, usage records and
\* sweeps every user's balance is >= 0; two concurrent spends whose sum exceeds the
\* balance never both succeed.
NonNegativeBalance == \A u \in Users : BalanceOf(u) >= 0

\* two workers spent 3 of user 1's balance at the same time: one committed, the other
\* was refused when the first commit made its lock wait fail
ConcurrentSpendsOneRefused ==
    \E p, q \in Procs :
        /\ p # q
        /\ pc[p] = "done" /\ pc[q] = "done"
        /\ call[p].op = "SpendNeurons" /\ call[q].op = "SpendNeurons"
        /\ call[p].user = 1 /\ call[q].user = 1
        /\ call[p].amount = 3 /\ call[q].amount = 3
        /\ res[p] = ErrNone /\ res[q] = ErrSerialization
        /\ BalanceOf(1) = 0

\* C2: a user's balance equals the sum of the amounts of the user's committed
\* transactions: no update is lost, no balance changes without a transaction.
BalanceIsLedgerSum == \A u \in Users : BalanceOf(u) = SumAmounts(transactions, u)

\* a grant and a spend of two workers on one user have both committed
GrantAndSpendCommitted ==
    \E p, q \in Procs :
        /\ pc[p] = "done" /\ pc[q] = "done"
        /\ call[p].op = "AddNeurons" /\ call[q].op = "SpendNeurons"
        /\ call[p].user = call[q].user
        /\ res[p] = ErrNone /\ res[q] = ErrNone
        /\ loc[p].txID # Null /\ loc[q].txID # Null

\* C3: a spend that reaches the balance check with a balance below its amount fails
\* with the insufficient-balance error; the balance row (present or absent), the
\* lifetime counters and the transaction log stay as they were.
SpendRefusedLeavesNoTrace ==
    [][\A p \in Procs :
        (/\ pc[p] = "tx_locked"
         /\ pc'[p] # "tx_locked"
         /\ call[p].op = "SpendNeurons"
         /\ BalanceOf(call[p].user) < call[p].amount)
        => (/\ res'[p] = ErrInsufficient
            /\ balances' = balances
            /\ transactions' = transactions)]_vars

\* balance 2, spend 3: refused, the balance is still 2
SpendThreeOfTwoRefused ==
    \E p \in Procs :
        /\ pc[p] = "done"
        /\ call[p].op = "SpendNeurons" /\ call[p].user = 2 /\ call[p].amount = 3
        /\ res[p] = ErrInsufficient
        /\ BalanceOf(2) = 2
        /\ Len(transactions) = Len(GrantedStore.transactions)

\* C4: when the UPDATE, the INSERT or the COMMIT of AddTransaction fails after the
\* row lock was taken, the balance rows and the transaction log are as before the call
\* and the row lock is released.
FailureAfterLockRollsBack ==
    [][\A p \in Procs :
        (/\ pc[p] = "tx_locked"
         /\ pc'[p] # "tx_locked"
         /\ res'[p] = ErrStore)
        => (/\ balances' = balances
            /\ transactions' = transactions
            /\ rowLock'[loc[p].tx.user_id] = NoProc)]_vars

\* a COMMIT failed (its id is spent), and afterwards another worker's transaction on
\* the same user took the next id and committed
LaterOperationProceeds ==
    \E p, q \in Procs :
        /\ pc[p] = "done" /\ pc[q] = "done"
        /\ res[q] = ErrStore /\ res[p] = ErrNone
        /\ loc[q].tx.user_id = loc[p].tx.user_id
        /\ loc[p].tx.user_id \in Users
        /\ loc[p].txID = txSeq
        /\ txSeq = Len(transactions) + 1

\* C5: two sweeps in a row leave the balances the first sweep left.
SweepIdempotent == sweeps.n = 2 => balances = sweeps.after

\* C6: of two sequential requests with the same user, model and prompt that both
\* complete, the first is debited and the second is a cache hit without a debit; a
\* later request with the same prompt and another model is debited.
CacheCorrectness ==
    \A i, j \in 1..Len(served) :
        (i < j /\ served[j].after >= i
         /\ served[i].user = served[j].user /\ served[i].text = served[j].text)
        => IF served[i].model = served[j].model
           THEN served[i].debited /\ served[j].cached /\ ~served[j].debited
           ELSE served[j].debited

\* C7: AddDailyNeurons is refused exactly when the balance it read has a last daily
\* grant and no more than 20 hours have passed since (exactly 20 hours is refused).
DailyWindowInclusive ==
    [][\A p \in Procs :
        (pc[p] = "daily_check" /\ pc'[p] # "daily_check")
        => LET last == loc[p].snapshot.last_daily_reward_at IN
           /\ (res'[p] = ErrAlreadyGranted)
                <=> (last # Null /\ now - last <= DailyRewardHours * Hour)
           /\ (pc'[p] = "done") <=> (res'[p] = ErrAlreadyGranted)
           /\ (pc'[p] = "tx_select") <=> (res'[p] = ErrNone)]_vars

\* a call exactly 20 hours after the last grant was refused
RefusedAtTwentyHours ==
    \E p \in Procs :
        /\ pc[p] = "done"
        /\ call[p].op = "AddDailyNeurons"
        /\ res[p] = ErrAlreadyGranted
        /\ loc[p].snapshot.last_daily_reward_at # Null
        /\ loc[p].checkedAt - loc[p].snapshot.last_daily_reward_at = DailyRewardHours * Hour

\* C7 as stated: refused exactly when less than 20 hours have passed.
DailyWindowExclusive ==
    [][\A p \in Procs :
        (pc[p] = "daily_check" /\ pc'[p] # "daily_check")
        => LET last == loc[p].snapshot.last_daily_reward_at IN
           (res'[p] = ErrAlreadyGranted)
             <=> (last # Null /\ now - last < DailyRewardHours * Hour)]_vars

\* EnsureUserExists has returned, with or without an error
IdentityTerminal(c) == c.reg \in {"send", "close", "exited"}

\* the handling goroutine has run to its end
HandlingTerminal(c) == c.msg = "exited"

\* C8: handleMessage returns only when the identity goroutine and the handling
\* goroutine have both reached a terminal state.
ReturnsAfterBothBranches ==
    \A m \in Actions :
        (coord[m].main = "returned" /\ coord[m].update \in {"message", "callback"})
        => (IdentityTerminal(coord[m]) /\ HandlingTerminal(coord[m]))

\* handling finished first, the identity goroutine failed, and the function returned
ReturnedAfterLateFailure ==
    \E m \in Actions :
        /\ coord[m].main = "returned"
        /\ coord[m].case = 3
        /\ coord[m].err

\* C9: when the identity goroutine failed before handling completed, the function
\* returns with the registration-error notice sent last, after the reply.
NoticeAfterEarlyFailure ==
    \A m \in Actions :
        (coord[m].main = "returned" /\ coord[m].failedFirst)
        => (/\ coord[m].outbox # <<>>
            /\ Last(coord[m].outbox) = RegistrationNotice)

\* C10: for each user, in commit order, every transaction's balance_after is the
\* previous balance_after (0 if none) plus its amount, and the last balance_after is
\* the current balance.
BalanceAfterChain ==
    \A u \in Users :
        LET log == UserLog(transactions, u) IN
        /\ \A i \in 1..Len(log) :
              log[i].balance_after =
                  (IF i = 1 THEN 0 ELSE log[i - 1].balance_after) + log[i].amount
        /\ log # <<>> => Last(log).balance_after = BalanceOf(u)

\* a sweep's reversal and a worker's own transaction are both in one user's log
ReversalAndTransactionInLog ==
    \E u \in Users :
        /\ \E i \in 1..Len(transactions) :
              transactions[i].user_id = u /\ transactions[i].reference_id = "expire_system"
        /\ \E i \in 1..Len(transactions) :
              /\ transactions[i].user_id = u
              /\ transactions[i].id > GrantedStore.txSeq
              /\ transactions[i].reference_id # "expire_system"

\* C11: lifetime_earned and lifetime_spent never decrease in any step; a committed
\* AddTransaction with a positive amount adds it to lifetime_earned and leaves
\* lifetime_spent, one with a negative amount adds its absolute value to
\* lifetime_spent and leaves lifetime_earned.
LifetimeCountersMonotone ==
    [][/\ \A u \in Users :
            balances[u] # NoRow
            => (/\ balances'[u] # NoRow
                /\ balances'[u].lifetime_earned >= balances[u].lifetime_earned
                /\ balances'[u].lifetime_spent >= balances[u].lifetime_spent)
       /\ \A p \in Procs :
            (pc[p] = "tx_locked" /\ pc'[p] # "tx_locked" /\ res'[p] = ErrNone)
            => LET u == loc[p].tx.user_id
                   delta == loc[p].tx.amount
                   old == IF balances[u] = NoRow THEN ZeroRow ELSE balances[u]
               IN /\ delta > 0
                     => (/\ balances'[u].lifetime_earned = old.lifetime_earned + delta
                         /\ balances'[u].lifetime_spent = old.lifetime_spent)
                  /\ delta < 0
                     => (/\ balances'[u].lifetime_spent = old.lifetime_spent - delta
                         /\ balances'[u].lifetime_earned = old.lifetime_earned)]_vars

\* user 1 was granted 3 and has then spent 3
SpentThreeCounted ==
    \E p \in Procs :
        /\ pc[p] = "done"
        /\ call[p].op = "SpendNeurons" /\ call[p].user = 1 /\ call[p].amount = 3
        /\ res[p] = ErrNone
        /\ balances[1].lifetime_earned = 3
        /\ balances[1].lifetime_spent = 3

\* C12: every GetBalance call returns a balance rather than an error, also when
\* several first accesses for the same user run concurrently.
GetBalanceAlwaysReturnsBalance ==
    \A p \in Procs :
        (pc[p] = "done" /\ call[p].op = "GetBalance")
        => (/\ res[p] = ErrNone
            /\ loc[p].snapshot # NoRow)

\* C13: a committed sweep lowers the balance of every user it selected with an
\* expired sum E, found under the row lock at B, to B - min(E, B); when min(E, B) > 0
\* it appends exactly one admin transaction for the user with amount -min(E, B),
\* reference 'expire_system' and balance_after the new balance; a user with B = 0
\* gets no transaction, users it did not select are untouched, and no balance
\* becomes negative.
SweepDebitsCappedSum ==
    [][\A p \in Procs :
        (pc[p] = "exp_commit" /\ pc'[p] # "exp_commit" /\ res'[p] = ErrNone)
        => LET sel == loc[p].selected
               new == SubSeq(transactions', Len(transactions) + 1, Len(transactions'))
           IN /\ SubSeq(transactions', 1, Len(transactions)) = transactions
              /\ \A u \in Users :
                   LET mine == {i \in DOMAIN sel : sel[i].UserID = u}
                       rows == {i \in DOMAIN new : new[i].user_id = u}
                   IN IF mine = {}
                      THEN balances'[u] = balances[u] /\ rows = {}
                      ELSE LET E == sel[CHOOSE i \in mine : TRUE].Amount
                               B == balances[u].balance
                               d == Min(E, B)
                           IN /\ E > 0
                              /\ balances'[u] = [balances[u] EXCEPT !.balance = B - d]
                              /\ balances'[u].balance >= 0
                              /\ d = 0 => rows = {}
                              /\ d > 0 =>
                                   /\ Cardinality(rows) = 1
                                   /\ \A i \in rows :
                                        /\ new[i].amount = 0 - d
                                        /\ new[i].transaction_type = TypeAdmin
                                        /\ new[i].reference_id = "expire_system"
                                        /\ new[i].balance_after = B - d]_vars

\* a sweep that selected user 1 (expired 1, balance spent down to 0) and user 2
\* (expired 2, balance 2) has committed
SweptEmptyAndFullBalance ==
    \E p \in Procs :
        /\ pc[p] = "done" /\ call[p].op = "ExpireNeurons" /\ res[p] = ErrNone
        /\ Len(loc[p].selected) = 2
        /\ Len(loc[p].pending) = 1
        /\ loc[p].pending[1].UserID = 2
        /\ balances[1].balance = 0
        /\ balances[2].balance = 0
        /\ Last(transactions).reference_id = "expire_system"
        /\ Last(transactions).user_id = 2

\* C14: a successful AddDailyNeurons for a user with plan P and loyalty bonus b
\* appends exactly one transaction of kind daily with amount
\* P.daily_neurons + floor(P.daily_neurons * b / 100) and expires_at = the time the
\* service read + P.neuron_expiry_days, raises the balance by that amount, and sets
\* last_daily_reward_at to the time of the update.
DailyGrantPosted ==
    [][\A p \in Procs :
        (/\ call[p].op = "AddDailyNeurons"
         /\ pc[p] = "tx_locked" /\ pc'[p] # "tx_locked" /\ res'[p] = ErrNone)
        => LET u == call[p].user
               b == call[p].percent
               P == GetSubscriptionPlan(u)
               delta == P.daily_neurons + (P.daily_neurons * b) \div 100
               old == IF balances[u] = NoRow THEN ZeroRow ELSE balances[u]
               t == Last(transactions')
           IN /\ b >= 0
              /\ Len(transactions') = Len(transactions) + 1
              /\ SubSeq(transactions', 1, Len(transactions)) = transactions
              /\ t.user_id = u
              /\ t.transaction_type = TypeDaily
              /\ t.amount = delta
              /\ t.expires_at = loc[p].checkedAt + P.neuron_expiry_days * Day
              /\ t.balance_after = old.balance + delta
              /\ balances'[u].balance = old.balance + delta
              /\ balances'[u].last_daily_reward_at = now]_vars

\* user 1, granted 5 at time 0, has received a second daily grant of 5 + floor(1.5)
SecondDailyGrantReceived ==
    \E p \in Procs :
        /\ pc[p] = "done"
        /\ call[p].op = "AddDailyNeurons" /\ call[p].user = 1
        /\ res[p] = ErrNone
        /\ balances[1].balance = 11
        /\ balances[1].last_daily_reward_at = now
        /\ Last(transactions).amount = 6

\* C15: last_daily_reward_at of a row changes only in a step of AddDailyNeurons;
\* AddNeurons, SpendNeurons, RecordLLMUsage and the sweep leave it alone whatever
\* transaction type they are given.
OnlyDailyPathStamps ==
    [][\A u \in Users :
        LET before == IF balances[u] = NoRow THEN Null ELSE balances[u].last_daily_reward_at
            after == IF balances'[u] = NoRow THEN Null ELSE balances'[u].last_daily_reward_at
        IN before # after
           => \E p \in Procs :
                /\ call[p].op = "AddDailyNeurons" /\ call[p].user = u
                /\ pc[p] = "tx_locked" /\ pc'[p] # "tx_locked"]_vars

\* C16: a request whose hash matches an existing usage row (a cache hit) makes no
\* call to the provider: the provider is called only after the lookup has missed.
CacheHitSkipsInvocation ==
    \A p \in Procs :
        (call[p].op = "ProcessRequest" /\ loc[p].cached) => ~loc[p].invoked

\* C17: ProcessRequest for a model the plan does not allow, for a prompt longer
\* than the plan's maximum, or with a balance below the request's cost returns an
\* error with no call to the provider attempted, and no step of a request that has
\* not yet called the provider changes a balance, the ledger or the usage records.
RejectedBeforeInvocation ==
    [][\A p \in Procs :
        LET u == call'[p].user
            plan == GetSubscriptionPlan(u)
            allowed == call'[p].model \in plan.available_models
            fits == plan.max_request_length = 0
                    \/ Len(call'[p].text) <= plan.max_request_length
        IN call'[p].op = "ProcessRequest"
           => /\ (pc[p] = "idle" /\ ~(allowed /\ fits))
                 => (pc'[p] = "done" /\ res'[p] # ErrNone /\ loc'[p].attempts = 0)
              /\ (/\ pc[p] = "pr_enough" /\ pc'[p] # "pr_enough"
                  /\ loc[p].snapshot.balance < call[p].amount)
                 => (pc'[p] = "done" /\ res'[p] # ErrNone /\ loc'[p].attempts = 0)
              /\ loc'[p].attempts > loc[p].attempts
                 => (allowed /\ fits /\ loc[p].snapshot.balance >= call[p].amount)
              /\ (loc'[p].attempts = 0 /\ <<pc[p], loc[p]>> # <<pc'[p], loc'[p]>>)
                 => /\ transactions' = transactions
                    /\ usages' = usages
                    /\ \A v \in Users : BalanceOf(v)' = BalanceOf(v)]_vars

\* one request was refused for its length and one for the balance, neither having
\* called the provider
RefusedTooLongAndNotEnough ==
    \E p, q \in Procs :
        /\ pc[p] = "done" /\ call[p].op = "ProcessRequest"
        /\ res[p] = ErrTooLong /\ loc[p].attempts = 0
        /\ Len(call[p].text) > GetSubscriptionPlan(call[p].user).max_request_length
        /\ pc[q] = "done" /\ call[q].op = "ProcessRequest"
        /\ res[q] = ErrNotEnough /\ loc[q].attempts = 0
        /\ BalanceOf(call[q].user) < call[q].amount

\* C18: when the call to the provider fails, ProcessRequest returns an error and
\* the balances, the ledger and the usage records are as they were; the provider is
\* called at most once per request.
ProviderFailureNotDebited ==
    [][\A p \in Procs :
        call[p].op = "ProcessRequest"
        => /\ loc'[p].attempts <= 1
           /\ (pc[p] = "pr_enough" /\ loc'[p].attempts = 1 /\ ~loc'[p].invoked)
              => /\ pc'[p] = "done" /\ res'[p] = ErrProvider
                 /\ UNCHANGED <<balances, transactions, usages>>
           /\ (loc[p].attempts = 1 /\ ~loc[p].invoked)
              => /\ pc[p] = "done" /\ res[p] = ErrProvider
                 /\ loc[p].txID = Null
                 /\ pc'[p] # pc[p] => UNCHANGED <<balances, transactions, usages>>]_vars

\* a request whose call to the provider failed has returned the provider's error
ProviderErrorReturned ==
    \E p \in Procs :
        /\ pc[p] = "done" /\ call[p].op = "ProcessRequest"
        /\ loc[p].attempts = 1 /\ ~loc[p].invoked
        /\ res[p] = ErrProvider
        /\ transactions = GrantedStore.transactions
        /\ usages = <<>>

\* C19: when the debit or the recording of the usage fails after the provider has
\* answered, ProcessRequest returns that error to its caller.
RecordingErrorPropagates ==
    \A p \in Procs :
        (pc[p] = "done" /\ call[p].op = "ProcessRequest" /\ loc[p].recordErr # ErrNone)
        => res[p] # ErrNone

\* C20: a row lock is held only inside the transaction that took it (the balance
\* read-modify-write and the insert into the log, or the sweep), and a
\* ProcessRequest holds one only after its call to the provider has returned: the
\* call is never made with a row locked by the request.
NoLockAcrossInvocation ==
    \A u \in Users :
        rowLock[u] # NoProc
        => LET p == rowLock[u] IN
           /\ pc[p] \in {"tx_locked", "exp_lock", "exp_commit"}
           /\ call[p].op = "ProcessRequest"
              => (loc[p].invoked /\ loc[p].attempts = 1)

\* a request whose provider call has returned holds the row for its debit
DebitLockedAfterInvocation ==
    \E p \in Procs :
        /\ call[p].op = "ProcessRequest"
        /\ loc[p].invoked
        /\ pc[p] = "tx_locked"
        /\ rowLock[call[p].user] = p

\* C21: every usage row with neurons_cost > 0 carries the id of a usage transaction
\* of the same user whose amount is -neurons_cost; every usage row written for a
\* cache hit has neurons_cost = 0 and no transaction id.
UsageLinkedToDebit ==
    \A i \in 1..Len(usages) :
        /\ usages[i].neurons_cost > 0
           => \E j \in 1..Len(transactions) :
                /\ transactions[j].id = usages[i].transaction_id
                /\ transactions[j].user_id = usages[i].user_id
                /\ transactions[j].transaction_type = TypeUsage
                /\ transactions[j].amount = 0 - usages[i].neurons_cost
        /\ usages[i].cached
           => (usages[i].neurons_cost = 0 /\ usages[i].transaction_id = Null)

\* a charged usage row followed by the row of a cache hit on the same hash
ChargedThenCachedRow ==
    /\ Len(usages) = 2
    /\ usages[1].neurons_cost = 1 /\ usages[1].transaction_id # Null
    /\ usages[2].cached
    /\ usages[2].request_hash = usages[1].request_hash

\* C22: for every base cost >= 1 and every discount in 0..100, ApplyNeuronDiscount
\* returns max(1, cost - floor(cost * discount / 100)), a value between 1 and the
\* base cost; a discount of 99 on cost 1 gives 1, and a discount of 0 gives the
\* base cost.
DiscountFlooredAtOne ==
    \A p \in Procs :
        call[p].op = "ApplyNeuronDiscount"
        => LET cost == call[p].amount
               discount == call[p].percent
               reduced == cost - (cost * discount) \div 100
               result == loc[p].cost
           IN /\ cost >= 1 /\ discount >= 0
              /\ result = IF reduced > 1 THEN reduced ELSE 1
              /\ result >= 1 /\ result <= cost
              /\ discount = 0 => result = cost
              /\ (discount = 99 /\ cost = 1) => result = 1

\* a discount of 99 percent has been applied to a cost of 1 and one of 100 to a cost of 5
DiscountAppliedToCostOne ==
    \E p, q \in Procs :
        /\ call[p].op = "ApplyNeuronDiscount" /\ pc[p] = "done"
        /\ call[p].amount = 1 /\ call[p].percent = 99 /\ loc[p].cost = 1
        /\ call[q].op = "ApplyNeuronDiscount" /\ pc[q] = "done"
        /\ call[q].amount = ProModelCost /\ call[q].percent = 100 /\ loc[q].cost = 1

\* C23: in every reachable state, under any interleaving of Subscribe,
\* CancelSubscription and ExpireSubscriptions, each user has at most one
\* subscription with status active and end_date > now.
AtMostOneActiveSubscription ==
    \A u \in Users :
        Cardinality({i \in DOMAIN subscriptions :
                        /\ subscriptions[i].user_id = u
                        /\ subscriptions[i].status = "active"
                        /\ subscriptions[i].end_date > now}) <= 1

\* C24: GetSubscriptionPlan returns the plan of a stored subscription of the user
\* with status active and end_date > now when there is one, and the free plan
\* otherwise; the call writes no subscription row, however often it is made.
ResolvePlanReadsOnly ==
    [][\A p \in Procs :
        (pc[p] = "idle" /\ call'[p].op = "GetSubscriptionPlan")
        => LET u == call'[p].user
               stored == {i \in DOMAIN subscriptions :
                            /\ subscriptions[i].user_id = u
                            /\ subscriptions[i].status = "active"
                            /\ subscriptions[i].end_date > now}
           IN /\ subscriptions' = subscriptions
              /\ IF stored = {}
                 THEN loc'[p].plan = FreePlan
                 ELSE \E i \in stored :
                        loc'[p].plan = GetPlanByCode(subscriptions[i].plan)]_vars

\* the plan of user 1 was resolved to premium while the subscription ran and to
\* free after its end, the row still marked active; no row was added
ResolvedPremiumThenFree ==
    \E p, q \in Procs :
        /\ call[p].op = "GetSubscriptionPlan" /\ call[p].user = 1
        /\ loc[p].plan = PremiumPlan
        /\ call[q].op = "GetSubscriptionPlan" /\ call[q].user = 1
        /\ loc[q].plan = FreePlan
        /\ subscriptions = SubscribedStore.subscriptions

\* C25: AddNeurons and SpendNeurons called with amount <= 0 return an error and
\* leave the balances, the lifetime counters and the transaction log unchanged;
\* with amount > 0, AddNeurons posts +amount and SpendNeurons posts -amount.
AmountSignChecked ==
    [][\A p \in Procs :
        LET c == call'[p]
            delta == IF call[p].op = "AddNeurons" THEN call[p].amount
                     ELSE 0 - call[p].amount
            u == call[p].user
            old == IF balances[u] = NoRow THEN ZeroRow ELSE balances[u]
        IN /\ (pc[p] = "idle" /\ c.op \in {"AddNeurons", "SpendNeurons"} /\ c.amount <= 0)
              => /\ pc'[p] = "done" /\ res'[p] = ErrAmount
                 /\ balances' = balances /\ transactions' = transactions
           /\ (call[p].op \in {"AddNeurons", "SpendNeurons"} /\ call[p].amount <= 0)
              => /\ pc[p] = "done"
                 /\ pc'[p] # pc[p] => (balances' = balances /\ transactions' = transactions)
           /\ (/\ call[p].op \in {"AddNeurons", "SpendNeurons"} /\ call[p].amount > 0
               /\ pc[p] = "tx_locked" /\ pc'[p] # "tx_locked" /\ res'[p] = ErrNone)
              => /\ balances'[u].balance = old.balance + delta
                 /\ Len(transactions') = Len(transactions) + 1
                 /\ Last(transactions').amount = delta
                 /\ Last(transactions').user_id = u]_vars

\* a grant of -3 was refused and a spend of 3 took user 1 from 3 to 0
NegativeGrantRefusedSpendApplied ==
    \E p, q \in Procs :
        /\ pc[p] = "done" /\ call[p].op = "AddNeurons" /\ call[p].user = 1
        /\ call[p].amount = 0 - 3 /\ res[p] = ErrAmount
        /\ pc[q] = "done" /\ call[q].op = "SpendNeurons" /\ call[q].user = 1
        /\ call[q].amount = 3 /\ res[q] = ErrNone
        /\ balances[1].balance = 0
        /\ Last(transactions).amount = 0 - 3

\* C26: a user on the free plan with balance 0 who calls the daily grant gets
\* balance 5 and one transaction of kind daily, +5, expiring 3 days after the call;
\* a first request of that user to a base model is then charged 1, and once its
\* usage is recorded the balance is 4.
NewUserScenario ==
    [][\A p \in Procs :
        LET u == call[p].user
            committed == pc[p] = "tx_locked" /\ pc'[p] # "tx_locked" /\ res'[p] = ErrNone
            t == Last(transactions')
        IN /\ (/\ call[p].op = "AddDailyNeurons" /\ call[p].percent = 0 /\ committed
               /\ GetSubscriptionPlan(u).code = "free" /\ balances[u].balance = 0)
              => /\ balances'[u].balance = 5
                 /\ Len(transactions') = Len(transactions) + 1
                 /\ t.user_id = u /\ t.transaction_type = TypeDaily /\ t.amount = 5
                 /\ t.expires_at = loc[p].checkedAt + 3 * Day
           /\ (/\ call[p].op = "ProcessRequest" /\ call[p].model \in Models /\ committed
               /\ balances[u].balance = 5)
              => /\ balances'[u].balance = 4
                 /\ Len(transactions') = Len(transactions) + 1
                 /\ t.user_id = u /\ t.transaction_type = TypeUsage /\ t.amount = 0 - 1
                 /\ t.balance_after = 4
           /\ (/\ call[p].op = "ProcessRequest" /\ call[p].model \in Models
               /\ pc[p] = "rl_add_usage" /\ pc'[p] # "rl_add_usage"
               /\ usages' # usages /\ ~loc[p].cached)
              => /\ Last(usages').neurons_cost = 1
                 /\ Last(usages').transaction_id = loc[p].txID
                 /\ \E i \in 1..Len(transactions) :
                       /\ transactions[i].id = loc[p].txID
                       /\ transactions[i].user_id = u
                       /\ transactions[i].amount = 0 - 1
                       /\ (Len(UserLog(transactions, u)) = 2
                           /\ transactions[i].balance_after = 4)
                          => balances'[u].balance = 4]_vars

\* user 1 started with nothing, received the daily 5 and has a recorded first
\* request that cost 1: the balance is 4
GrantedFiveChargedOne ==
    /\ balances[1].balance = 4
    /\ Len(UserLog(transactions, 1)) = 2
    /\ UserLog(transactions, 1)[1].transaction_type = TypeDaily
    /\ UserLog(transactions, 1)[1].amount = 5
    /\ UserLog(transactions, 1)[1].expires_at = 3 * Day
    /\ UserLog(transactions, 1)[2].transaction_type = TypeUsage
    /\ UserLog(transactions, 1)[2].amount = 0 - 1
    /\ \E i \in 1..Len(usages) :
          /\ usages[i].user_id = 1 /\ usages[i].neurons_cost = 1
          /\ usages[i].transaction_id = UserLog(transactions, 1)[2].id

\* C27: under any interleaving of concurrent AddDailyNeurons calls for one user at
\* most one daily grant is applied within 20 hours: a daily transaction is never
\* created less than 20 hours after the user's previous one, also when both calls
\* read the balance before either writes.
OneDailyGrantPerWindow ==
    [][\A p \in Procs :
        (/\ call[p].op = "AddDailyNeurons"
         /\ pc[p] = "tx_locked" /\ pc'[p] # "tx_locked" /\ res'[p] = ErrNone)
        => LET last == balances[call[p].user].last_daily_reward_at
           IN last = Null \/ now - last >= DailyRewardHours * Hour]_vars

\* C28: of two concurrent requests with the same model and prompt at most one is
\* debited, also when the second starts before the first has recorded its usage:
\* no request is debited while no usage row has its hash yet and another request
\* in flight with the same model and prompt has been debited already.
IdenticalRequestsBilledOnce ==
    [][\A p \in Procs :
        (/\ call[p].op = "ProcessRequest"
         /\ pc[p] = "tx_locked" /\ pc'[p] # "tx_locked" /\ res'[p] = ErrNone
         /\ GetLLMUsageByHash(loc[p].hash) = NoUsage)
        => ~\E q \in Procs \ {p} :
              /\ call[q].op = "ProcessRequest"
              /\ call[q].model = call[p].model /\ call[q].text = call[p].text
              /\ loc[q].txID # Null]_vars

\* C29: a request whose hash matches an existing usage row is served at zero cost
\* whatever the balance, also with balance 0: the lookup comes before the balance
\* check, so no request is refused for its balance while a row with its hash exists.
CacheHitNeverRefused ==
    [][\A p \in Procs :
        (/\ call[p].op = "ProcessRequest"
         /\ pc[p] = "pr_enough" /\ pc'[p] = "done" /\ res'[p] = ErrNotEnough)
        => GetLLMUsageByHash(generateRequestHash(call[p].text, call[p].model)) = NoUsage]_vars

\* C30: the balance check of ProcessRequest uses the cost that is charged: a request
\* is refused for its balance exactly when the balance that was read is below the
\* discounted cost of the user's plan.
PreCheckUsesDiscountedCost ==
    [][\A p \in Procs :
        (call[p].op = "ProcessRequest" /\ pc[p] = "pr_enough" /\ pc'[p] # "pr_enough")
        => (res'[p] = ErrNotEnough
            <=> loc[p].snapshot.balance < ApplyNeuronDiscount(call[p].user, call[p].amount))]_vars

\* C31: two requests have the same fingerprint only if their prompts are equal and
\* their model names are equal: generateRequestHash maps distinct (prompt, model)
\* pairs to distinct fingerprints, the digest taken as injective on its bytes.
FingerprintInjective ==
    \A p, q \in Procs :
        (/\ call[p].op = "generateRequestHash" /\ call[q].op = "generateRequestHash"
         /\ pc[p] = "done" /\ pc[q] = "done"
         /\ loc[p].hash = loc[q].hash)
        => (call[p].text = call[q].text /\ call[p].model = call[q].model)

\* C32: under fair scheduling, once handleMessage has started its two goroutines it
\* returns and both goroutines exit, whatever the order of their steps and whether
\* or not EnsureUserExists failed: nothing stays blocked on a channel, and a failure
\* of the identity goroutine does not keep the handling goroutine from finishing.
HandleMessageTerminates ==
    \A m \in Actions :
        (coord[m].main = "select")
        ~> (/\ coord[m].main = "returned"
            /\ coord[m].reg = "exited"
            /\ coord[m].msg = "exited")

\* the identity goroutine failed after handling had finished; the function has
\* returned and both goroutines have exited
AllExitedAfterLateFailure ==
    \E m \in Actions :
        /\ coord[m].main = "returned"
        /\ coord[m].err /\ ~coord[m].failedFirst
        /\ coord[m].reg = "exited" /\ coord[m].msg = "exited"
        /\ coord[m].messageChan = "closed" /\ coord[m].userRegisteredChan = "closed"

\* the number of registration-error notices in an outbox
RECURSIVE Notices(_)
Notices(outbox) ==
    IF outbox = <<>> THEN 0
    ELSE (IF Head(outbox) = RegistrationNotice THEN 1 ELSE 0) + Notices(Tail(outbox))

\* C33: the registration-error notice is sent at most once per inbound action, only
\* if the identity goroutine failed for that action, and never before the handling
\* goroutine has completed (so after its reply, if it sent one).
NoticeOnceAfterHandling ==
    \A m \in Actions :
        /\ Notices(coord[m].outbox) <= 1
        /\ Notices(coord[m].outbox) = 1
           => /\ coord[m].err
              /\ coord[m].msg = "exited" /\ coord[m].messageChan = "closed"
              /\ Last(coord[m].outbox) = RegistrationNotice

\* an action was answered with the reply and then the notice
ReplyThenNotice ==
    \E m \in Actions :
        /\ coord[m].main = "returned"
        /\ coord[m].case = 2
        /\ coord[m].outbox = <<Reply, RegistrationNotice>>

\* C34: the usage debit and its usage row are written together: once RecordLLMUsage
\* has returned, also with an error of AddLLMUsage, the debit it committed has a
\* usage row that references it and carries the request's hash.
DebitHasUsageRow ==
    \A p \in Procs :
        (call[p].op = "RecordLLMUsage" /\ pc[p] = "done" /\ loc[p].txID # Null)
        => \E i \in 1..Len(usages) :
              /\ usages[i].transaction_id = loc[p].txID
              /\ usages[i].request_hash = loc[p].hash

\* the amount taken from the balance by the transaction with the given id
DebitedBy(txID) ==
    IF txID = Null THEN 0
    ELSE LET i == CHOOSE j \in 1..Len(transactions) : transactions[j].id = txID
         IN 0 - transactions[i].amount

\* C35: the NeuronsCost of a response that ProcessRequest returns successfully is
\* the amount debited from the user by that request: a cache hit reports 0, and no
\* response reports a positive cost while nothing was debited.
ReportedCostIsDebited ==
    \A p \in Procs :
        (call[p].op = "ProcessRequest" /\ pc[p] = "done" /\ res[p] = ErrNone)
        => loc[p].cost = DebitedBy(loc[p].txID)

\* C36: what a user is debited for a request depends only on that user's own plan,
\* balance and requests, not on the earlier requests of another user: a request is
\* served without a debit as a cache hit only when a usage row of the same user has
\* its hash (without the other user's requests the lookup would have missed and
\* the request would have been debited its cost).
CacheHitOnlyOnOwnRequests ==
    [][\A p \in Procs :
        (call[p].op = "ProcessRequest" /\ ~loc[p].cached /\ loc'[p].cached)
        => \E i \in 1..Len(usages) :
              /\ usages[i].user_id = call[p].user
              /\ usages[i].request_hash = loc[p].hash]_vars

\* the sum of a user's positive grants whose expiry time has passed
RECURSIVE ExpiredGrants(_, _)
ExpiredGrants(log, u) ==
    IF log = <<>> THEN 0
    ELSE (IF /\ Head(log).user_id = u /\ Head(log).amount > 0
             /\ Head(log).expires_at # Null /\ Head(log).expires_at < now
          THEN Head(log).amount ELSE 0)
         + ExpiredGrants(Tail(log), u)

\* C37: a run of the sweep debits a user by at most max(0, E - S), E the sum of the
\* user's expired positive grants and S what the user has already spent: neurons
\* of grants that have not expired or never expire are not removed, and a user who
\* has spent at least E loses nothing.
SweepTakesOnlyUnspentExpired ==
    [][\A p \in Procs :
        (pc[p] = "exp_commit" /\ pc'[p] # "exp_commit" /\ res'[p] = ErrNone)
        => \A u \in Users :
              balances[u] # NoRow
              => LET E == ExpiredGrants(transactions, u)
                     S == balances[u].lifetime_spent
                 IN balances[u].balance - balances'[u].balance
                      <= (IF E - S > 0 THEN E - S ELSE 0)]_vars

\* C38: in every reachable state every user's balance is lifetime_earned minus
\* lifetime_spent, after any grants, spends, daily grants, usage debits and sweeps.
BalanceIsEarnedMinusSpent ==
    \A u \in Users :
        balances[u] # NoRow
        => balances[u].balance = balances[u].lifetime_earned - balances[u].lifetime_spent

\* C39: the sweep is all-or-nothing across users: no step of ExpireNeurons other
\* than its successful commit changes a balance or the transaction log, so a sweep
\* that returns an error after having processed some users has changed nothing;
\* a sweep that commits has processed, under the row lock, every user it selected.
SweepAllOrNothing ==
    [][\A p \in Procs :
        (/\ call[p].op = "ExpireNeurons"
         /\ pc[p] \in {"exp_select", "exp_lock", "exp_commit"}
         /\ <<pc[p], loc[p]>> # <<pc'[p], loc'[p]>>)
        => IF pc[p] = "exp_commit" /\ res'[p] = ErrNone
           THEN /\ loc[p].entries = <<>>
                /\ \A i \in DOMAIN loc[p].selected :
                      LET u == loc[p].selected[i].UserID
                          E == loc[p].selected[i].Amount
                      IN /\ rowLock[u] = p
                         /\ balances'[u].balance
                              = balances[u].balance - Min(E, balances[u].balance)
           ELSE /\ balances' = balances
                /\ transactions' = transactions
                /\ pc'[p] = "done" => res'[p] # ErrNone]_vars

\* a sweep failed after it had processed a user whose balance it would have
\* lowered: the balance is what it was
SweepFailedAfterFirstUser ==
    \E p \in Procs :
        /\ pc[p] = "done" /\ call[p].op = "ExpireNeurons" /\ res[p] = ErrStore
        /\ Len(loc[p].selected) = 2
        /\ Len(loc[p].pending) >= 1
        /\ balances[loc[p].pending[1].UserID].balance
             = loc[p].pending[1].NewBalance + loc[p].pending[1].Amount
        /\ transactions = GrantedStore.transactions
====
